---------------------------- MODULE Spec2Model ----------------------------
(***************************************************************************)
(* A model of the cover geometry of makePeriodicTableEPUB                  *)
(* (scripts/build_cover_svg.py): compute_position, which maps an element   *)
(* record to a (row, column) of the periodic-table grid, and build_cells,  *)
(* which turns a list of element records into pixel rectangles.            *)
(*                                                                         *)
(* Python values are records [type, int, str]; a dict is a function whose  *)
(* DOMAIN is the set of keys it holds, so a missing key is really missing. *)
(* Real numbers are held exactly as integer multiples of 1/Unit: the only  *)
(* divisors in the code are COLUMNS, ROWS and the 1/2 of LAN_GAP_FACTOR,   *)
(* so every quantity of build_cells is an exact multiple of 1/Unit. The    *)
(* IEEE-754 rounding of Python's float is not modelled in build_cells.     *)
(*                                                                         *)
(* make_arc_path_d and its helpers are modelled on a class of doubles: the *)
(* whole degrees that are multiples of 5, the multiples k * 1e-20 of a     *)
(* tiny angle, and the two infinities, on which the rounding of float      *)
(* subtraction and of float % is modelled as IEEE-754 does it and math.cos *)
(* fails as Python's does. Coordinates are integers in units of            *)
(* 1e-6, from a cosine table in units of 1e-9, and the path holds them as  *)
(* the ".3f" format prints them, in thousandths.                           *)
(***************************************************************************)
EXTENDS Integers, Sequences, FiniteSets

----------------------------------------------------------------------------
(* Layout constants, build_cover_svg.py lines 37-46 and 61-66 *)

LAYOUT_WIDTH == 2560
LAYOUT_HEIGHT == 1600
COLUMNS == 18
ROWS == 9
MARGIN_LEFT == 160
MARGIN_RIGHT == 160
MARGIN_TOP == 200
MARGIN_BOTTOM == 200
LAN_START_COLUMN == 4
LAN_ROW == 8
ACT_ROW == 9

\* LAN_GAP_FACTOR = 0.5, as the fraction LAN_GAP_FACTOR_NUM / LAN_GAP_FACTOR_DEN
LAN_GAP_FACTOR_NUM == 1
LAN_GAP_FACTOR_DEN == 2

\* One pixel is Unit model units; a real v is held as the integer v * Unit.
Unit == COLUMNS * ROWS * LAN_GAP_FACTOR_DEN

Px(n) == n * Unit

----------------------------------------------------------------------------
(* Bounds of the checked inputs *)

\* atomic numbers 0..MaxAtomic
MaxAtomic == 105
\* group values -MaxNeg..MaxGroup
MaxGroup == 19
\* period values -MaxNeg..MaxPeriod
MaxPeriod == 9
MaxNeg == 1
\* lists of up to MaxElems records
MaxElems == 2
\* angles -10 * MaxAngleSteps .. 10 * MaxAngleSteps degrees, in steps of 10
MaxAngleSteps == 37
\* tiny angles k * 1e-20 degrees, k in -MaxTiny..MaxTiny, k # 0
MaxTiny == 2
\* language arguments: every str of up to MaxTagLen characters of TagChars
MaxTagLen == 3
\* block inference: atomic numbers 0..MaxBlockAtomic
MaxBlockAtomic == 119
\* fetch_wiki: element lists of up to MaxFetched elements
MaxFetched == 2
\* build_epub: lists of up to MaxPages element pages
MaxPages == 3

----------------------------------------------------------------------------
(* Python values and dicts *)

PyInt(n) == [type |-> "int", int |-> n, str |-> ""]
PyStr(s) == [type |-> "str", int |-> 0, str |-> s]
None == [type |-> "NoneType", int |-> 0, str |-> ""]
\* not a Python value: marks a key the dict does not hold
Absent == [type |-> "absent", int |-> 0, str |-> ""]

Keys == {"atomic_number", "symbol", "group", "period"}

\* the dict {"atomic_number": a, "symbol": s, "group": g, "period": p} without
\* the keys whose value is Absent
MkElement(a, s, g, p) ==
    LET full == [k \in Keys |-> CASE k = "atomic_number" -> a
                                  [] k = "symbol" -> s
                                  [] k = "group" -> g
                                  [] OTHER -> p]
    IN  [k \in {q \in Keys : full[q] # Absent} |-> full[k]]

\* dict.get(key): None when the key is missing
Get(element, key) == IF key \in DOMAIN element THEN element[key] ELSE None

\* bool(v) of an int, a str or None
Truthy(v) ==
    CASE v.type = "int" -> v.int # 0
      [] v.type = "str" -> v.str # ""
      [] OTHER -> FALSE

----------------------------------------------------------------------------
(* compute_position *)

Unset == [kind |-> "unset", row |-> 0, column |-> 0, exc |-> ""]
NoPosition == [kind |-> "None", row |-> 0, column |-> 0, exc |-> ""]
Position(row, column) == [kind |-> "pos", row |-> row, column |-> column, exc |-> ""]
Raised(e) == [kind |-> "raise", row |-> 0, column |-> 0, exc |-> e]

\* faulty variant: the group/period rule is tried before the atomic-number ranges
compute_position_group_first(element) ==
    IF "atomic_number" \notin DOMAIN element THEN Raised("KeyError")
    ELSE
    LET atomic_number == element["atomic_number"]
        group == Get(element, "group")
        period == Get(element, "period")
    IN  IF atomic_number.type # "int" THEN Raised("TypeError")
        ELSE IF Truthy(group) /\ Truthy(period) /\ group.type = "int"
                /\ 1 <= group.int /\ group.int <= 18
             THEN Position(period.int, group.int)
        ELSE IF 57 <= atomic_number.int /\ atomic_number.int <= 71
             THEN Position(LAN_ROW, LAN_START_COLUMN + (atomic_number.int - 57))
        ELSE IF 89 <= atomic_number.int /\ atomic_number.int <= 103
             THEN Position(ACT_ROW, LAN_START_COLUMN + (atomic_number.int - 89))
        ELSE NoPosition

\* faulty variant: the actinide range ends one short (89 <= atomic_number < 103)
compute_position_act_short(element) ==
    IF "atomic_number" \notin DOMAIN element THEN Raised("KeyError")
    ELSE
    LET atomic_number == element["atomic_number"]
        group == Get(element, "group")
        period == Get(element, "period")
    IN  IF atomic_number.type # "int" THEN Raised("TypeError")
        ELSE IF 57 <= atomic_number.int /\ atomic_number.int <= 71
             THEN Position(LAN_ROW, LAN_START_COLUMN + (atomic_number.int - 57))
        ELSE IF 89 <= atomic_number.int /\ atomic_number.int < 103
             THEN Position(ACT_ROW, LAN_START_COLUMN + (atomic_number.int - 89))
        ELSE IF Truthy(group) /\ Truthy(period)
             THEN IF group.type # "int" THEN Raised("TypeError")
                  ELSE IF 1 <= group.int /\ group.int <= 18
                       THEN Position(period.int, group.int)
                       ELSE NoPosition
        ELSE NoPosition

\* faulty variant: the group/period rule returns (group, period) instead of (period, group)
compute_position_swapped(element) ==
    IF "atomic_number" \notin DOMAIN element THEN Raised("KeyError")
    ELSE
    LET atomic_number == element["atomic_number"]
        group == Get(element, "group")
        period == Get(element, "period")
    IN  IF atomic_number.type # "int" THEN Raised("TypeError")
        ELSE IF 57 <= atomic_number.int /\ atomic_number.int <= 71
             THEN Position(LAN_ROW, LAN_START_COLUMN + (atomic_number.int - 57))
        ELSE IF 89 <= atomic_number.int /\ atomic_number.int <= 103
             THEN Position(ACT_ROW, LAN_START_COLUMN + (atomic_number.int - 89))
        ELSE IF Truthy(group) /\ Truthy(period)
             THEN IF group.type # "int" THEN Raised("TypeError")
                  ELSE IF 1 <= group.int /\ group.int <= 18
                       THEN Position(group.int, period.int)
                       ELSE NoPosition
        ELSE NoPosition

compute_position(element) ==
    IF "atomic_number" \notin DOMAIN element THEN Raised("KeyError")
    ELSE
    LET atomic_number == element["atomic_number"]
        group == Get(element, "group")
        period == Get(element, "period")
    IN  IF atomic_number.type # "int" THEN Raised("TypeError")
        ELSE IF 57 <= atomic_number.int /\ atomic_number.int <= 71
             THEN Position(LAN_ROW, LAN_START_COLUMN + (atomic_number.int - 57))
        ELSE IF 89 <= atomic_number.int /\ atomic_number.int <= 103
             THEN Position(ACT_ROW, LAN_START_COLUMN + (atomic_number.int - 89))
        ELSE IF Truthy(group) /\ Truthy(period)
             THEN IF group.type # "int" THEN Raised("TypeError")
                  ELSE IF 1 <= group.int /\ group.int <= 18
                       THEN Position(period.int, group.int)
                       ELSE NoPosition
        ELSE NoPosition

----------------------------------------------------------------------------
(* build_cells *)

\* faulty variant: floor division (//) instead of true division
cell_width_floor == Px((LAYOUT_WIDTH - MARGIN_LEFT - MARGIN_RIGHT) \div COLUMNS)

cell_width == (Px(LAYOUT_WIDTH - MARGIN_LEFT - MARGIN_RIGHT)) \div COLUMNS
cell_height == (Px(LAYOUT_HEIGHT - MARGIN_TOP - MARGIN_BOTTOM)) \div ROWS
gap == (cell_height * LAN_GAP_FACTOR_NUM) \div LAN_GAP_FACTOR_DEN

CellX(column) == Px(MARGIN_LEFT) + (column - 1) * cell_width

\* faulty variant: the gap is subtracted instead of added
CellY_gap_subtracted(row) ==
    LET y == Px(MARGIN_TOP) + (row - 1) * cell_height
    IN  IF row >= LAN_ROW THEN y - gap ELSE y

\* faulty variant: the gap starts one row late (row > LAN_ROW)
CellY_gap_late(row) ==
    LET y == Px(MARGIN_TOP) + (row - 1) * cell_height
    IN  IF row > LAN_ROW THEN y + gap ELSE y

\* faulty variant: the gap is three cell heights
CellY_gap_wide(row) ==
    LET y == Px(MARGIN_TOP) + (row - 1) * cell_height
    IN  IF row >= LAN_ROW THEN y + 3 * cell_height ELSE y

CellY(row) ==
    LET y == Px(MARGIN_TOP) + (row - 1) * cell_height
    IN  IF row >= LAN_ROW THEN y + gap ELSE y

Cell(element, row, column) ==
    [atomic_number |-> element["atomic_number"],
     symbol |-> element["symbol"],
     x |-> CellX(column),
     y |-> CellY(row),
     width |-> cell_width,
     height |-> cell_height]

\* faulty variant: the new Cell is put in front of the list
AppendCell_front(cs, c) == <<c>> \o cs

AppendCell(cs, c) == Append(cs, c)

\* faulty variant: the list of the previous call is kept (a list created once,
\* as a default argument or a module-level list would be)
FreshCells_kept(old) == old

\* line 87, cells: List[Cell] = []: every call starts with a new empty list,
\* whatever list an earlier call built
FreshCells(old) == <<>>

VARIABLES
    elements,   \* the argument of build_cells, a sequence of dicts
    i,          \* how many elements the for loop has taken
    position,   \* the local variable position
    cells,      \* the local list cells
    pc,         \* "loop", "done" (cells was returned) or "raised"
    exc         \* the exception that left build_cells, "" if none

VARIABLES
    run,        \* 1 in the first call of build_cells on elements, 2 in a second
    first       \* the list the first call returned, <<>> before it returns

gridVars == <<elements, i, position, cells, pc, exc>>
runVars == <<run, first>>

----------------------------------------------------------------------------
(* make_arc_path_d *)

\* the double deg, a whole number of degrees
Angle(deg) == [deg |-> deg, tiny |-> 0, inf |-> 0]
\* the double k * 1e-20, far below the spacing of the doubles around 1
TinyAngle(k) == [deg |-> 0, tiny |-> k, inf |-> 0]
\* float("inf") for sign 1, float("-inf") for sign -1
Infinite(sign) == [deg |-> 0, tiny |-> 0, inf |-> sign]

\* a - b in float arithmetic: a tiny part next to a nonzero whole part is
\* rounded away
FloatSub(a, b) ==
    IF a.inf # 0 THEN a
    ELSE IF a.deg - b.deg # 0 THEN Angle(a.deg - b.deg)
    ELSE TinyAngle(a.tiny - b.tiny)

\* math.cos and math.sin raise ValueError("math domain error") for an
\* infinite argument; math.radians keeps an infinity
MathDomainError(phi) == phi.inf # 0

\* a % 360.0 in Python float arithmetic: the remainder takes the sign of the
\* divisor, so a negative tiny a gives a + 360.0, which rounds to 360.0
FloatMod360(a) ==
    IF a.tiny = 0 THEN Angle(a.deg % 360)
    ELSE IF a.tiny > 0 THEN a
    ELSE Angle(360)

\* a > 180
FloatGt180(a) == a.deg > 180

\* the digits of the ".3f" format of the path
FORMAT_DIGITS == 3
Milli == 10 ^ FORMAT_DIGITS
Micro == Milli * Milli

\* cos of 0, 5, .., 90 degrees in units of 1e-9
CosTable ==
    <<1000000000, 996194698, 984807753, 965925826, 939692621, 906307787,
      866025404, 819152044, 766044443, 707106781, 642787610, 573576436,
      500000000, 422618262, 342020143, 258819045, 173648178, 87155743, 0>>

\* math.cos(math.radians(deg)) in units of 1e-9, deg a multiple of 5
CosNano(deg) ==
    LET m == deg % 360
    IN  IF m <= 90 THEN CosTable[(m \div 5) + 1]
        ELSE IF m <= 180 THEN -CosTable[((180 - m) \div 5) + 1]
        ELSE IF m <= 270 THEN -CosTable[((m - 180) \div 5) + 1]
        ELSE CosTable[((360 - m) \div 5) + 1]

\* math.sin(math.radians(deg)) in units of 1e-9
SinNano(deg) == CosNano(deg - 90)

\* r * c, c in units of 1e-9, in units of 1e-6 (rounded down)
Scaled(r, c) == r * (c \div Milli) + ((r * (c % Milli)) \div Milli)

\* lines 111-114
_topclock_deg_to_svg_rad(theta_deg_topclock) ==
    FloatSub(theta_deg_topclock, Angle(90))

\* faulty variant: no quarter turn, 0 degrees points right as in mathematics
_polar_to_xy_math(cx, cy, r, theta_deg_topclock) ==
    LET phi == theta_deg_topclock
    IN  [x |-> cx * Micro + Scaled(r, CosNano(phi.deg)),
         y |-> cy * Micro + Scaled(r, SinNano(phi.deg))]

\* faulty variant: the radius is made non-negative first
_polar_to_xy_abs(cx, cy, r, theta_deg_topclock) ==
    LET phi == _topclock_deg_to_svg_rad(theta_deg_topclock)
        a == IF r < 0 THEN -r ELSE r
    IN  [x |-> cx * Micro + Scaled(a, CosNano(phi.deg)),
         y |-> cy * Micro + Scaled(a, SinNano(phi.deg))]

\* lines 117-119, the point in units of 1e-6
_polar_to_xy(cx, cy, r, theta_deg_topclock) ==
    LET phi == _topclock_deg_to_svg_rad(theta_deg_topclock)
    IN  [x |-> cx * Micro + Scaled(r, CosNano(phi.deg)),
         y |-> cy * Micro + Scaled(r, SinNano(phi.deg))]

\* lines 122-125
_normalize_topclock_deg(theta_deg_topclock) == FloatMod360(theta_deg_topclock)

\* faulty variant: an extent of 0 is taken as the full circle
_clockwise_extent_deg_full(theta_start_deg_topclock, theta_end_deg_topclock) ==
    LET start == _normalize_topclock_deg(theta_start_deg_topclock)
        end == _normalize_topclock_deg(theta_end_deg_topclock)
        extent == FloatMod360(FloatSub(end, start))
    IN  IF extent = Angle(0) THEN Angle(360) ELSE extent

\* lines 128-133
_clockwise_extent_deg(theta_start_deg_topclock, theta_end_deg_topclock) ==
    LET start == _normalize_topclock_deg(theta_start_deg_topclock)
        end == _normalize_topclock_deg(theta_end_deg_topclock)
    IN  FloatMod360(FloatSub(end, start))

\* faulty variant: arc_extent >= 180
LargeArcFlag_ge(arc_extent) == IF arc_extent.deg >= 180 THEN 1 ELSE 0

\* faulty variant: an extent of 0 asks for the large arc, as a full circle would
LargeArcFlag_full(arc_extent) ==
    IF FloatGt180(arc_extent) \/ arc_extent = Angle(0) THEN 1 ELSE 0

\* line 148
LargeArcFlag(arc_extent) == IF FloatGt180(arc_extent) THEN 1 ELSE 0

\* faulty variant: the sweep flag follows the large-arc flag
SweepFlag_large(large_arc_flag) == large_arc_flag

\* line 149: sweep_flag = 1, whatever the large-arc flag is
SweepFlag(large_arc_flag) == 1

\* "{v:.3f}": v, in units of 1e-6, rounded to thousandths
Format3(v) == (v + (Milli \div 2)) \div Milli

\* lines 145-153: the fields of the returned string
\*   "M x1,y1 A rx,ry rotation large_arc_flag sweep_flag x2,y2"
make_arc_path_d(cx, cy, r, theta_start_deg_topclock, theta_end_deg_topclock) ==
    LET p1 == _polar_to_xy(cx, cy, r, theta_start_deg_topclock)
        p2 == _polar_to_xy(cx, cy, r, theta_end_deg_topclock)
        arc_extent == _clockwise_extent_deg(theta_start_deg_topclock, theta_end_deg_topclock)
        large_arc_flag == LargeArcFlag(arc_extent)
    IN  [x1 |-> Format3(p1.x), y1 |-> Format3(p1.y),
         rx |-> Format3(r * Micro), ry |-> Format3(r * Micro),
         rotation |-> 0,
         large_arc_flag |-> large_arc_flag,
         sweep_flag |-> SweepFlag(large_arc_flag),
         x2 |-> Format3(p2.x), y2 |-> Format3(p2.y)]

VARIABLES
    arc_args,   \* the arguments cx, cy, r, theta_start, theta_end of the call
    arc_pc,     \* "idle" (no call), "called" or "done"
    arc_extent, \* the local arc_extent
    arc_path    \* the returned path

arcVars == <<arc_args, arc_pc, arc_extent, arc_path>>

\* concurrent calls: build_cells calls (call_*) and make_arc_path_d calls
\* (acall_*), each variable a function of the call
VARIABLES
    heap,           \* the list objects made by the calls: list id -> list of Cells
    call_elements,  \* the argument of each build_cells call
    call_i,         \* how many elements the loop of each call has taken
    call_cells,     \* the list object bound to the local cells of each call
    call_pc,        \* "called", "loop", "done" (returned), "raised"
    call_exc,       \* the exception that left each call, "" if none
    acall_args,     \* the arguments of each make_arc_path_d call
    acall_pc,       \* "called", "done"
    acall_path      \* the path each make_arc_path_d call returned

callVars == <<heap, call_elements, call_i, call_cells, call_pc, call_exc,
              acall_args, acall_pc, acall_path>>

\* get_localized_strings
VARIABLES
    language,       \* the argument
    lang_pc,        \* "called", "selected", "done"
    selected,       \* the local selected
    base            \* the local base, the dict that is returned

langVars == <<language, lang_pc, selected, base>>

\* render_svg
VARIABLES
    render_args,    \* the arguments cells, strings and language
    render_pc,      \* "called", "done"
    render_arcs,    \* the arguments of the two make_arc_path_d calls made
    render_ctx      \* the keyword arguments handed to template.render

renderVars == <<render_args, render_pc, render_arcs, render_ctx>>

\* sanitize_language_code
VARIABLES
    san_language,   \* the argument
    san_pc,         \* "called", "done"
    san_result      \* the returned tag

sanVars == <<san_language, san_pc, san_result>>

\* infer_block_from_group next to compute_position
VARIABLES
    blk_element,    \* the element record both functions are asked about
    blk_pc,         \* "called", "inferred", "done"
    blk_block,      \* what infer_block_from_group returned
    blk_position    \* what compute_position returned

blkVars == <<blk_element, blk_pc, blk_block, blk_position>>

\* fetch_wiki.main and the fetch_element_summaries call it makes
VARIABLES
    fw_args,        \* --api, whether --elements-from is given, and the element file
    fw_pc,          \* the position in main
    fw_todo,        \* the APIs the for loop of main has still to take
    fw_attempted,   \* the APIs attempted so far, in order
    fw_failed,      \* the APIs whose attempt raised
    fw_payload,     \* the API of the local payload, "" while it is None
    fw_raw,         \* the APIs whose raw page file is written
    fw_meta,        \* the API meta.json names, "" while it is not written
    fw_ret,         \* "none", "0", "1", or "raised" when an exception leaves main
    fw_i,           \* how many elements the loop of fetch_element_summaries has taken
    fw_summaries,   \* the local summaries
    fw_elem_raw,    \* the titles whose raw summary file is written, in order
    fw_skipped,     \* the indices of the elements skipped for want of a URL
    fw_refused,     \* the indices of the elements whose summary request raised
    fw_requested,   \* the titles summary_request was called with, in order
    fw_elements_json \* the summaries written to elements.json, <<>> if none

fwVars == <<fw_args, fw_pc, fw_todo, fw_attempted, fw_failed, fw_payload, fw_raw,
            fw_meta, fw_ret, fw_i, fw_summaries, fw_elem_raw, fw_skipped,
            fw_refused, fw_requested, fw_elements_json>>

\* build_epub.render_opf
VARIABLES
    opf_args,       \* the element_pages the call is given
    opf_doc         \* the manifest and the spine of the returned document

opfVars == <<opf_args, opf_doc>>

\* build_epub.main from line 535 on
VARIABLES
    ep_args,        \* the element_pages built so far and whether attribution.xhtml exists
    ep_pc,          \* the position in main
    ep_written,     \* the files this run has written, in order
    ep_opf,         \* the manifest and the spine written to content.opf
    ep_archive,     \* the files in the EPUB archive, {} while none is created
    ep_ret          \* "none", "0", or the exception that left main

epVars == <<ep_args, ep_pc, ep_written, ep_opf, ep_archive, ep_ret>>

offGridVars == <<arcVars, callVars, langVars, renderVars, sanVars, blkVars, fwVars, opfVars, epVars>>
offArcVars == <<gridVars, runVars, callVars, langVars, renderVars, sanVars, blkVars, fwVars, opfVars, epVars>>
offCallVars == <<gridVars, runVars, arcVars, langVars, renderVars, sanVars, blkVars, fwVars, opfVars, epVars>>
offLangVars == <<gridVars, runVars, arcVars, callVars, renderVars, sanVars, blkVars, fwVars, opfVars, epVars>>
offRenderVars == <<gridVars, runVars, arcVars, callVars, langVars, sanVars, blkVars, fwVars, opfVars, epVars>>
offSanVars == <<gridVars, runVars, arcVars, callVars, langVars, renderVars, blkVars, fwVars, opfVars, epVars>>
offBlkVars == <<gridVars, runVars, arcVars, callVars, langVars, renderVars, sanVars, fwVars, opfVars, epVars>>
offFwVars == <<gridVars, runVars, arcVars, callVars, langVars, renderVars, sanVars, blkVars, opfVars, epVars>>
offOpfVars == <<gridVars, runVars, arcVars, callVars, langVars, renderVars, sanVars, blkVars, fwVars, epVars>>
offEpVars == <<gridVars, runVars, arcVars, callVars, langVars, renderVars, sanVars, blkVars, fwVars, opfVars>>
vars == <<gridVars, runVars, offGridVars>>

GridIdle ==
    /\ elements = <<>>
    /\ i = 0
    /\ position = Unset
    /\ cells = <<>>
    /\ pc = "idle"
    /\ exc = ""
    /\ run = 1
    /\ first = <<>>

ArcIdle ==
    /\ arc_args = <<>>
    /\ arc_pc = "idle"
    /\ arc_extent = <<>>
    /\ arc_path = <<>>

CallsIdle ==
    /\ heap = <<>>
    /\ call_elements = <<>>
    /\ call_i = <<>>
    /\ call_cells = <<>>
    /\ call_pc = <<>>
    /\ call_exc = <<>>
    /\ acall_args = <<>>
    /\ acall_pc = <<>>
    /\ acall_path = <<>>

LangIdle ==
    /\ language = <<>>
    /\ lang_pc = "idle"
    /\ selected = <<>>
    /\ base = <<>>

RenderIdle ==
    /\ render_args = <<>>
    /\ render_pc = "idle"
    /\ render_arcs = <<>>
    /\ render_ctx = <<>>

SanIdle ==
    /\ san_language = <<>>
    /\ san_pc = "idle"
    /\ san_result = <<>>

BlkIdle ==
    /\ blk_element = <<>>
    /\ blk_pc = "idle"
    /\ blk_block = <<>>
    /\ blk_position = <<>>

FwIdle ==
    /\ fw_args = <<>>
    /\ fw_pc = "idle"
    /\ fw_todo = <<>>
    /\ fw_attempted = <<>>
    /\ fw_failed = {}
    /\ fw_payload = ""
    /\ fw_raw = {}
    /\ fw_meta = ""
    /\ fw_ret = "none"
    /\ fw_i = 0
    /\ fw_summaries = <<>>
    /\ fw_elem_raw = <<>>
    /\ fw_skipped = {}
    /\ fw_refused = {}
    /\ fw_requested = <<>>
    /\ fw_elements_json = <<>>

OpfIdle ==
    /\ opf_args = <<>>
    /\ opf_doc = [manifest |-> <<>>, spine |-> <<>>]

EpIdle ==
    /\ ep_args = <<>>
    /\ ep_pc = "idle"
    /\ ep_written = <<>>
    /\ ep_opf = [manifest |-> <<>>, spine |-> <<>>]
    /\ ep_archive = {}
    /\ ep_ret = "none"

OffGridIdle == ArcIdle /\ CallsIdle /\ LangIdle /\ RenderIdle /\ SanIdle /\ BlkIdle /\ FwIdle /\ OpfIdle /\ EpIdle
OffArcIdle == GridIdle /\ CallsIdle /\ LangIdle /\ RenderIdle /\ SanIdle /\ BlkIdle /\ FwIdle /\ OpfIdle /\ EpIdle
OffCallsIdle == GridIdle /\ ArcIdle /\ LangIdle /\ RenderIdle /\ SanIdle /\ BlkIdle /\ FwIdle /\ OpfIdle /\ EpIdle
OffLangIdle == GridIdle /\ ArcIdle /\ CallsIdle /\ RenderIdle /\ SanIdle /\ BlkIdle /\ FwIdle /\ OpfIdle /\ EpIdle
OffRenderIdle == GridIdle /\ ArcIdle /\ CallsIdle /\ LangIdle /\ SanIdle /\ BlkIdle /\ FwIdle /\ OpfIdle /\ EpIdle
OffSanIdle == GridIdle /\ ArcIdle /\ CallsIdle /\ LangIdle /\ RenderIdle /\ BlkIdle /\ FwIdle /\ OpfIdle /\ EpIdle
OffBlkIdle == GridIdle /\ ArcIdle /\ CallsIdle /\ LangIdle /\ RenderIdle /\ SanIdle /\ FwIdle /\ OpfIdle /\ EpIdle
OffFwIdle == GridIdle /\ ArcIdle /\ CallsIdle /\ LangIdle /\ RenderIdle /\ SanIdle /\ BlkIdle /\ OpfIdle /\ EpIdle
OffOpfIdle == GridIdle /\ ArcIdle /\ CallsIdle /\ LangIdle /\ RenderIdle /\ SanIdle /\ BlkIdle /\ FwIdle /\ EpIdle
OffEpIdle == GridIdle /\ ArcIdle /\ CallsIdle /\ LangIdle /\ RenderIdle /\ SanIdle /\ BlkIdle /\ FwIdle /\ OpfIdle

----------------------------------------------------------------------------
(* build_cells: inputs and steps *)

\* inputs: one record of any shape
AtomicValues == {PyInt(n) : n \in 0..MaxAtomic} \cup {None, Absent}
GroupValues == {PyInt(n) : n \in (-MaxNeg)..MaxGroup} \cup {None, Absent}
PeriodValues == {PyInt(n) : n \in (-MaxNeg)..MaxPeriod} \cup {None, Absent}
AnyRecords ==
    {MkElement(a, PyStr("X"), g, p) :
        a \in AtomicValues, g \in GroupValues, p \in PeriodValues}

\* inputs: records that cover every coordinate of the ROWS x COLUMNS grid
GridRecords ==
    {MkElement(PyInt(1), PyStr("X"), PyInt(g), PyInt(p)) : g \in 1..COLUMNS, p \in 1..ROWS}
    \cup {MkElement(PyInt(n), PyStr("X"), None, None) : n \in (57..71) \cup (89..103)}

\* inputs: a few records, well-formed and malformed, for the lists
ListRecords ==
    {MkElement(a, s, g, p) :
        a \in {Absent, PyInt(1), PyInt(57)},
        s \in {Absent, None, PyStr("H")},
        g \in {PyInt(4), PyInt(19)},
        p \in {None, PyInt(0), PyInt(8)}}

SeqsUpTo(S, n) == UNION {[1..m -> S] : m \in 0..n}

Inputs ==
    [1..1 -> AnyRecords] \cup [1..2 -> GridRecords] \cup SeqsUpTo(ListRecords, MaxElems)

Init ==
    /\ elements \in Inputs
    /\ i = 0
    /\ position = Unset
    /\ cells = <<>>
    /\ pc = "loop"
    /\ exc = ""
    /\ run = 1
    /\ first = <<>>
    /\ OffGridIdle

\* lines 89-92: compute_position returned None, continue
build_cells_continue ==
    /\ pc = "loop"
    /\ i < Len(elements)
    /\ compute_position(elements[i + 1]) = NoPosition
    /\ i' = i + 1
    /\ position' = NoPosition
    /\ UNCHANGED <<elements, cells, pc, exc>>
    /\ UNCHANGED <<runVars, offGridVars>>

\* lines 89-107: a position was returned, the Cell is appended
build_cells_append ==
    /\ pc = "loop"
    /\ i < Len(elements)
    /\ LET element == elements[i + 1]
           p == compute_position(element)
       IN  /\ p.kind = "pos"
           /\ "symbol" \in DOMAIN element
           /\ i' = i + 1
           /\ position' = p
           /\ cells' = AppendCell(cells, Cell(element, p.row, p.column))
    /\ UNCHANGED <<elements, pc, exc>>
    /\ UNCHANGED <<runVars, offGridVars>>

\* line 90: compute_position raises; the exception leaves build_cells
build_cells_raise_position ==
    /\ pc = "loop"
    /\ i < Len(elements)
    /\ LET p == compute_position(elements[i + 1])
       IN  /\ p.kind = "raise"
           /\ exc' = p.exc
    /\ i' = i + 1
    /\ pc' = "raised"
    /\ UNCHANGED <<elements, position, cells>>
    /\ UNCHANGED <<runVars, offGridVars>>

\* line 101: element["symbol"] raises KeyError after position was assigned
build_cells_raise_symbol ==
    /\ pc = "loop"
    /\ i < Len(elements)
    /\ LET element == elements[i + 1]
           p == compute_position(element)
       IN  /\ p.kind = "pos"
           /\ "symbol" \notin DOMAIN element
           /\ position' = p
    /\ i' = i + 1
    /\ exc' = "KeyError"
    /\ pc' = "raised"
    /\ UNCHANGED <<elements, cells>>
    /\ UNCHANGED <<runVars, offGridVars>>

\* line 108: the loop is over, cells is returned
build_cells_return ==
    /\ pc = "loop"
    /\ i = Len(elements)
    /\ pc' = "done"
    /\ UNCHANGED <<elements, i, position, cells, exc>>
    /\ UNCHANGED <<runVars, offGridVars>>

\* build_cells is called again on the same list once the first call returned
build_cells_again ==
    /\ pc = "done"
    /\ run = 1
    /\ run' = 2
    /\ first' = cells
    /\ i' = 0
    /\ position' = Unset
    /\ cells' = FreshCells(cells)
    /\ pc' = "loop"
    /\ UNCHANGED <<elements, exc, offGridVars>>

Next ==
    \/ build_cells_continue
    \/ build_cells_append
    \/ build_cells_raise_position
    \/ build_cells_raise_symbol
    \/ build_cells_return

Spec == Init /\ [][Next]_vars

\* two calls of build_cells in a row on the same list
NextTwice ==
    \/ build_cells_continue
    \/ build_cells_append
    \/ build_cells_raise_position
    \/ build_cells_raise_symbol
    \/ build_cells_return
    \/ build_cells_again

SpecTwice == Init /\ [][NextTwice]_vars

----------------------------------------------------------------------------
(* make_arc_path_d: inputs and steps *)

Angles ==
    {Angle(10 * k) : k \in (-MaxAngleSteps)..MaxAngleSteps}
    \cup {TinyAngle(k) : k \in ((-MaxTiny)..MaxTiny) \ {0}}
    \cup {Infinite(1), Infinite(-1)}

\* centres and radii: positive, zero and negative radius
Circles ==
    {[cx |-> 100, cy |-> 100, r |-> 50],
     [cx |-> 0, cy |-> 0, r |-> 10],
     [cx |-> 0, cy |-> 0, r |-> 0],
     [cx |-> 100, cy |-> 100, r |-> 0],
     [cx |-> 0, cy |-> 0, r |-> -10]}

ArcInputs ==
    {[cx |-> c.cx, cy |-> c.cy, r |-> c.r, theta_start |-> a, theta_end |-> b] :
        c \in Circles, a \in Angles, b \in Angles}

ArcInit ==
    /\ arc_args \in ArcInputs
    /\ arc_pc = "called"
    /\ arc_extent = <<>>
    /\ arc_path = <<>>
    /\ OffArcIdle

\* lines 145-146 and 117-119: math.cos raises in _polar_to_xy for the start
\* point or for the end point, and the exception leaves make_arc_path_d
make_arc_path_d_raise ==
    /\ arc_pc = "called"
    /\ \/ MathDomainError(_topclock_deg_to_svg_rad(arc_args.theta_start))
       \/ MathDomainError(_topclock_deg_to_svg_rad(arc_args.theta_end))
    /\ arc_pc' = "raised"
    /\ UNCHANGED <<arc_args, arc_extent, arc_path, offArcVars>>

\* lines 136-153: the whole call; it reads its arguments only
make_arc_path_d_call ==
    /\ arc_pc = "called"
    /\ ~MathDomainError(_topclock_deg_to_svg_rad(arc_args.theta_start))
    /\ ~MathDomainError(_topclock_deg_to_svg_rad(arc_args.theta_end))
    /\ arc_extent' = _clockwise_extent_deg(arc_args.theta_start, arc_args.theta_end)
    /\ arc_path' = make_arc_path_d(arc_args.cx, arc_args.cy, arc_args.r,
                                   arc_args.theta_start, arc_args.theta_end)
    /\ arc_pc' = "done"
    /\ UNCHANGED <<arc_args, offArcVars>>

ArcNext ==
    \/ make_arc_path_d_call
    \/ make_arc_path_d_raise

SpecArc == ArcInit /\ [][ArcNext]_vars

----------------------------------------------------------------------------
(* Concurrent calls of build_cells and of make_arc_path_d: inputs and steps.
   A step of a call is one pass of the loop of build_cells, or the whole of
   make_arc_path_d; the steps of different calls interleave in any order. *)

\* build_cells run alone on the first n elements of es: the cells built and
\* the exception raised, "" if none
RECURSIVE build_cells_alone(_, _)
build_cells_alone(es, n) ==
    IF n = 0 THEN [cells |-> <<>>, exc |-> ""]
    ELSE
    LET before == build_cells_alone(es, n - 1)
        p == compute_position(es[n])
    IN  IF before.exc # "" THEN before
        ELSE IF p.kind = "raise" THEN [before EXCEPT !.exc = p.exc]
        ELSE IF p = NoPosition THEN before
        ELSE IF "symbol" \notin DOMAIN es[n] THEN [before EXCEPT !.exc = "KeyError"]
        ELSE [before EXCEPT !.cells = AppendCell(@, Cell(es[n], p.row, p.column))]

Calls == {1, 2}

\* faulty variant: the calls work on one and the same list object
NewList_shared(call) == 1

\* line 87, cells = []: a list object of its own for every call
NewList(call) == call

\* the lists passed to the calls: records that are placed, one that is
\* skipped, and records that make the call raise
CallInputs ==
    LET H == MkElement(PyInt(1), PyStr("H"), PyInt(1), PyInt(1))
        La == MkElement(PyInt(57), PyStr("La"), None, None)
        Skipped == MkElement(PyInt(1), PyStr("X"), None, PyInt(1))
        NoSymbol == MkElement(PyInt(2), Absent, PyInt(18), PyInt(1))
        NoNumber == MkElement(Absent, PyStr("X"), PyInt(1), PyInt(1))
    IN  {<<>>, <<H, La>>, <<La, H>>, <<Skipped, H>>, <<H, NoSymbol>>, <<NoNumber>>}

\* the arguments of the make_arc_path_d calls
ArcCallInputs ==
    {[cx |-> 100, cy |-> 100, r |-> 50, theta_start |-> Angle(0), theta_end |-> Angle(90)],
     [cx |-> 0, cy |-> 0, r |-> 10, theta_start |-> Angle(350), theta_end |-> Angle(10)]}

CallsInit ==
    /\ heap = [l \in Calls |-> <<>>]
    /\ call_elements \in [Calls -> CallInputs]
    /\ call_i = [c \in Calls |-> 0]
    /\ call_cells = [c \in Calls |-> 0]
    /\ call_pc = [c \in Calls |-> "called"]
    /\ call_exc = [c \in Calls |-> ""]
    /\ acall_args \in [Calls -> ArcCallInputs]
    /\ acall_pc = [c \in Calls |-> "called"]
    /\ acall_path = [c \in Calls |-> <<>>]
    /\ OffCallsIdle

\* line 87: the local cells is bound to a new empty list
call_begin(c) ==
    /\ call_pc[c] = "called"
    /\ call_cells' = [call_cells EXCEPT ![c] = NewList(c)]
    /\ heap' = [heap EXCEPT ![NewList(c)] = <<>>]
    /\ call_pc' = [call_pc EXCEPT ![c] = "loop"]
    /\ UNCHANGED <<call_elements, call_i, call_exc, acall_args, acall_pc, acall_path>>
    /\ UNCHANGED offCallVars

\* lines 89-92: compute_position returned None, continue
call_continue(c) ==
    /\ call_pc[c] = "loop"
    /\ call_i[c] < Len(call_elements[c])
    /\ compute_position(call_elements[c][call_i[c] + 1]) = NoPosition
    /\ call_i' = [call_i EXCEPT ![c] = @ + 1]
    /\ UNCHANGED <<heap, call_elements, call_cells, call_pc, call_exc,
                   acall_args, acall_pc, acall_path>>
    /\ UNCHANGED offCallVars

\* lines 89-107: a position was returned, the Cell is appended to the list
\* object the local cells is bound to
call_append(c) ==
    /\ call_pc[c] = "loop"
    /\ call_i[c] < Len(call_elements[c])
    /\ LET element == call_elements[c][call_i[c] + 1]
           p == compute_position(element)
       IN  /\ p.kind = "pos"
           /\ "symbol" \in DOMAIN element
           /\ heap' = [heap EXCEPT ![call_cells[c]] =
                           AppendCell(@, Cell(element, p.row, p.column))]
    /\ call_i' = [call_i EXCEPT ![c] = @ + 1]
    /\ UNCHANGED <<call_elements, call_cells, call_pc, call_exc,
                   acall_args, acall_pc, acall_path>>
    /\ UNCHANGED offCallVars

\* line 90: compute_position raises; the exception leaves build_cells
call_raise_position(c) ==
    /\ call_pc[c] = "loop"
    /\ call_i[c] < Len(call_elements[c])
    /\ LET p == compute_position(call_elements[c][call_i[c] + 1])
       IN  /\ p.kind = "raise"
           /\ call_exc' = [call_exc EXCEPT ![c] = p.exc]
    /\ call_i' = [call_i EXCEPT ![c] = @ + 1]
    /\ call_pc' = [call_pc EXCEPT ![c] = "raised"]
    /\ UNCHANGED <<heap, call_elements, call_cells, acall_args, acall_pc, acall_path>>
    /\ UNCHANGED offCallVars

\* line 101: element["symbol"] raises KeyError
call_raise_symbol(c) ==
    /\ call_pc[c] = "loop"
    /\ call_i[c] < Len(call_elements[c])
    /\ LET element == call_elements[c][call_i[c] + 1]
       IN  /\ compute_position(element).kind = "pos"
           /\ "symbol" \notin DOMAIN element
    /\ call_i' = [call_i EXCEPT ![c] = @ + 1]
    /\ call_exc' = [call_exc EXCEPT ![c] = "KeyError"]
    /\ call_pc' = [call_pc EXCEPT ![c] = "raised"]
    /\ UNCHANGED <<heap, call_elements, call_cells, acall_args, acall_pc, acall_path>>
    /\ UNCHANGED offCallVars

\* line 108: the loop is over, the list object is returned
call_return(c) ==
    /\ call_pc[c] = "loop"
    /\ call_i[c] = Len(call_elements[c])
    /\ call_pc' = [call_pc EXCEPT ![c] = "done"]
    /\ UNCHANGED <<heap, call_elements, call_i, call_cells, call_exc,
                   acall_args, acall_pc, acall_path>>
    /\ UNCHANGED offCallVars

\* lines 136-153: make_arc_path_d, which has locals only
acall_return(c) ==
    /\ acall_pc[c] = "called"
    /\ acall_path' = [acall_path EXCEPT ![c] =
            make_arc_path_d(acall_args[c].cx, acall_args[c].cy, acall_args[c].r,
                            acall_args[c].theta_start, acall_args[c].theta_end)]
    /\ acall_pc' = [acall_pc EXCEPT ![c] = "done"]
    /\ UNCHANGED <<heap, call_elements, call_i, call_cells, call_pc, call_exc, acall_args>>
    /\ UNCHANGED offCallVars

CallsNext ==
    \E c \in Calls :
        \/ call_begin(c)
        \/ call_continue(c)
        \/ call_append(c)
        \/ call_raise_position(c)
        \/ call_raise_symbol(c)
        \/ call_return(c)
        \/ acall_return(c)

SpecCalls == CallsInit /\ [][CallsNext]_vars

----------------------------------------------------------------------------
(* localization.py: _select_language and get_localized_strings.
   A str is the sequence of its characters; the text of a key in a language
   is the pair of the two. *)

\* a str argument and the argument None
Tag(chars) == [type |-> "str", chars |-> chars]
NoTag == [type |-> "none", chars |-> <<>>]

En == <<"e", "n">>
Ja == <<"j", "a">>
DEFAULT_LANGUAGE == En

Text(lang, key) == [lang |-> lang, key |-> key]
\* what dict.get returns for a missing key
NoText == [lang |-> "", key |-> ""]

\* the keys of _BASE_STRINGS["en"], lines 14-40
EnKeys ==
    {"cover_page_title", "cover_nav_label", "cover_image_alt", "cover_arc_title",
     "cover_arc_subtitle", "book_author", "toc_heading", "element_profiles_title",
     "element_profiles_nav_label", "element_profiles_intro",
     "element_profiles_source_note", "element_meta_atomic_number",
     "element_meta_symbol", "element_meta_standard_atomic_weight",
     "element_meta_group", "element_meta_period", "element_meta_block",
     "element_meta_category", "element_meta_phase_stp", "element_meta_origin",
     "sources_title", "sources_nav_label", "sources_intro", "sources_retrieved"}

\* the keys of _BASE_STRINGS["ja"], lines 43-70
JaKeys == EnKeys \cup {"element_meta_name_en"}

\* lines 12-72; the "ja" text of cover_arc_subtitle is the "en" text
_BASE_STRINGS ==
    [l \in {En, Ja} |->
        IF l = En THEN [k \in EnKeys |-> Text("en", k)]
        ELSE [k \in JaKeys |->
                IF k = "cover_arc_subtitle" THEN Text("en", k) ELSE Text("ja", k)]]

\* str.lower of a character
Lower(c) ==
    CASE c = "A" -> "a"
      [] c = "E" -> "e"
      [] c = "J" -> "j"
      [] c = "N" -> "n"
      [] c = "P" -> "p"
      [] c = "S" -> "s"
      [] c = "U" -> "u"
      [] OTHER -> c

\* str.lower
LowerStr(chars) == [n \in 1..Len(chars) |-> Lower(chars[n])]

Least(S) == CHOOSE n \in S : \A m \in S : n <= m
Greatest(S) == CHOOSE n \in S : \A m \in S : m <= n

\* str.strip: the blanks at both ends are dropped
Strip(chars) ==
    LET inked == {n \in 1..Len(chars) : chars[n] # " "}
    IN  IF inked = {} THEN <<>> ELSE SubSeq(chars, Least(inked), Greatest(inked))

\* chars.split(sep, 1)[0]: what stands before the first sep
SplitFirst(chars, sep) ==
    LET at == {n \in 1..Len(chars) : chars[n] = sep}
    IN  IF at = {} THEN chars ELSE SubSeq(chars, 1, Least(at) - 1)

\* faulty variant: a tag that is not a key itself selects the default
_select_language_exact(lang) ==
    IF lang.type = "none" \/ lang.chars = <<>> THEN DEFAULT_LANGUAGE
    ELSE
    LET candidate == LowerStr(Strip(lang.chars))
    IN  IF candidate \in DOMAIN _BASE_STRINGS THEN candidate ELSE DEFAULT_LANGUAGE

\* lines 75-88
_select_language(lang) ==
    IF lang.type = "none" \/ lang.chars = <<>> THEN DEFAULT_LANGUAGE
    ELSE
    LET candidate == LowerStr(Strip(lang.chars))
    IN  IF candidate = <<>> THEN DEFAULT_LANGUAGE
        ELSE IF candidate \in DOMAIN _BASE_STRINGS THEN candidate
        ELSE
        LET primary == SplitFirst(candidate, "-")
        IN  IF primary \in DOMAIN _BASE_STRINGS THEN primary ELSE DEFAULT_LANGUAGE

\* dict.update
DictUpdate(d, other) ==
    [k \in DOMAIN d \cup DOMAIN other |-> IF k \in DOMAIN other THEN other[k] ELSE d[k]]

\* dict.setdefault
SetDefault(d, key, value) ==
    IF key \in DOMAIN d THEN d
    ELSE [k \in DOMAIN d \cup {key} |-> IF k = key THEN value ELSE d[k]]

\* dict.get
DictGet(d, key) == IF key \in DOMAIN d THEN d[key] ELSE NoText

\* lines 99-110: the dict built for the selected language
MergedStrings(sel) ==
    LET b0 == _BASE_STRINGS[DEFAULT_LANGUAGE]
        b1 == IF sel # DEFAULT_LANGUAGE THEN DictUpdate(b0, _BASE_STRINGS[sel]) ELSE b0
        b2 == SetDefault(b1, "element_profiles_nav_label", b1["element_profiles_title"])
        b3 == SetDefault(b2, "sources_nav_label", b2["sources_title"])
        b4 == SetDefault(b3, "cover_nav_label", b3["cover_page_title"])
        b5 == SetDefault(b4, "book_title", DictGet(b4, "cover_arc_title"))
        b6 == SetDefault(b5, "book_subtitle", DictGet(b5, "cover_arc_subtitle"))
    IN  SetDefault(b6, "book_author", _BASE_STRINGS[DEFAULT_LANGUAGE]["book_author"])

\* lines 91-110
get_localized_strings(lang) == MergedStrings(_select_language(lang))

\* the characters of the generated tags
TagChars == {"e", "n", "j", "a", "J", "x", "-", " "}

\* inputs: None, every str of up to MaxTagLen characters, and some longer tags
Languages ==
    {NoTag}
    \cup {Tag(chars) : chars \in SeqsUpTo(TagChars, MaxTagLen)}
    \cup {Tag(<<"j", "a", "-", "J", "P">>), Tag(<<" ", "J", "a", "-", "j", "p", " ">>),
          Tag(<<"e", "n", "-", "U", "S">>), Tag(<<"j", "a", "_", "J", "P">>),
          Tag(<<"x", "x", "-", "j", "a">>)}

LangInit ==
    /\ language \in Languages
    /\ lang_pc = "called"
    /\ selected = <<>>
    /\ base = <<>>
    /\ OffLangIdle

\* line 98
get_localized_strings_select ==
    /\ lang_pc = "called"
    /\ selected' = _select_language(language)
    /\ lang_pc' = "selected"
    /\ UNCHANGED <<language, base>>
    /\ UNCHANGED offLangVars

\* lines 99-110
get_localized_strings_return ==
    /\ lang_pc = "selected"
    /\ base' = MergedStrings(selected)
    /\ lang_pc' = "done"
    /\ UNCHANGED <<language, selected>>
    /\ UNCHANGED offLangVars

LangNext ==
    \/ get_localized_strings_select
    \/ get_localized_strings_return

SpecLang == LangInit /\ [][LangNext]_vars

----------------------------------------------------------------------------
(* render_svg, build_cover_svg.py lines 285-332: the values handed to the
   template. Lengths of the context are in thousandths. *)

\* the offset added to r_title, line 303
R_SUBTITLE_OFFSET == 120
\* the divisor 1.414 of the anchors, in thousandths, lines 322-325
ANCHOR_DIVISOR_MILLI == 1414
\* the half width of the arcs around 45 degrees, lines 308-309
ARC_HALF_WIDTH == 140
ARC_MIDDLE == 45

\* line 299, cx = LAYOUT_WIDTH / 2.5
cover_cx == (LAYOUT_WIDTH * 10) \div 25
\* line 300, cy = LAYOUT_HEIGHT / 4
cover_cy == LAYOUT_HEIGHT \div 4
\* line 301, base = min(LAYOUT_WIDTH, LAYOUT_HEIGHT)
cover_base == IF LAYOUT_WIDTH < LAYOUT_HEIGHT THEN LAYOUT_WIDTH ELSE LAYOUT_HEIGHT
\* line 302
r_title == cover_base \div 8

\* line 303
r_subtitle(title_radius) == title_radius + R_SUBTITLE_OFFSET

\* faulty variant: the arc is a quarter turn around the middle
ArcSpan_narrow(half_width) ==
    [theta_start |-> Angle(ARC_MIDDLE - 45), theta_end |-> Angle(ARC_MIDDLE + 45)]

\* lines 308-309
ArcSpan(half_width) ==
    [theta_start |-> Angle(ARC_MIDDLE - half_width),
     theta_end |-> Angle(ARC_MIDDLE + half_width)]

\* r / 1.414 to the nearest thousandth
AnchorOffset(r) ==
    (r * Milli * Milli + (ANCHOR_DIVISOR_MILLI \div 2)) \div ANCHOR_DIVISOR_MILLI

\* lines 226-232
_language_primary_tag(lang) ==
    IF lang.type = "none" \/ lang.chars = <<>> THEN NoTag
    ELSE
    LET candidate == LowerStr(Strip(lang.chars))
    IN  IF candidate = <<>> THEN NoTag ELSE Tag(SplitFirst(candidate, "-"))

\* lines 27-34
DEFAULT_SANS_FALLBACK ==
    <<"Helvetica Neue", "Helvetica", "Arial", "Noto Sans", "DejaVu Sans", "sans-serif">>

\* what _select_japanese_font can return on a host: a family or None ("")
HostFonts == {"", "Noto Sans CJK JP", "Arial"}

\* lines 213-223, the families of the stack before quoting; the families of
\* the model differ by more than case
_build_font_stack(primary) ==
    IF primary = "" THEN DEFAULT_SANS_FALLBACK
    ELSE <<primary>> \o SelectSeq(DEFAULT_SANS_FALLBACK, LAMBDA family : family # primary)

\* the cells a build_cells call returned
RenderCells == {build_cells_alone(es, Len(es)).cells : es \in CallInputs}

\* main, lines 350-354: strings is get_localized_strings(language)
RenderInputs ==
    {[cells |-> cs, strings |-> get_localized_strings(lang), language |-> lang] :
        cs \in RenderCells, lang \in Languages}

RenderInit ==
    /\ render_args \in RenderInputs
    /\ render_pc = "called"
    /\ render_arcs = <<>>
    /\ render_ctx = <<>>
    /\ OffRenderIdle

\* lines 299-332, with the Japanese font the host offers; a Japanese font is
\* looked for only for the primary tag "ja" (line 311 and lines 235-239)
render_svg(primary_font) ==
    /\ render_pc = "called"
    /\ (_language_primary_tag(render_args.language) # Tag(Ja)) => primary_font = ""
    /\ LET span == ArcSpan(ARC_HALF_WIDTH)
           title == [cx |-> cover_cx, cy |-> cover_cy, r |-> r_title,
                     theta_start |-> span.theta_start, theta_end |-> span.theta_end]
           subtitle == [title EXCEPT !.r = r_subtitle(r_title)]
           stack == _build_font_stack(primary_font)
           d(a) == make_arc_path_d(a.cx, a.cy, a.r, a.theta_start, a.theta_end)
       IN  /\ render_arcs' = [title |-> title, subtitle |-> subtitle]
           /\ render_ctx' =
                [cells |-> render_args.cells,
                 layout_width |-> LAYOUT_WIDTH,
                 layout_height |-> LAYOUT_HEIGHT,
                 arc_title_d |-> d(title),
                 arc_subtitle_d |-> d(subtitle),
                 title_x |-> cover_cx * Milli - AnchorOffset(r_title),
                 title_y |-> cover_cy * Milli - AnchorOffset(r_title),
                 subtitle_x |-> cover_cx * Milli - AnchorOffset(subtitle.r),
                 subtitle_y |-> cover_cx * Milli - AnchorOffset(subtitle.r),
                 atom_x |-> cover_cx * Milli,
                 atom_y |-> cover_cy * Milli,
                 title_text |-> render_args.strings["cover_arc_title"],
                 subtitle_text |-> render_args.strings["cover_arc_subtitle"],
                 title_font_stack |-> stack,
                 body_font_stack |-> stack]
    /\ render_pc' = "done"
    /\ UNCHANGED render_args
    /\ UNCHANGED offRenderVars

RenderNext == \E primary_font \in HostFonts : render_svg(primary_font)

SpecRender == RenderInit /\ [][RenderNext]_vars

----------------------------------------------------------------------------
(* build_epub.py: sanitize_language_code, lines 20-44 *)

\* str.replace of one character by another
Replace(chars, old, new) ==
    [n \in 1..Len(chars) |-> IF chars[n] = old THEN new ELSE chars[n]]

\* str.split(sep): the pieces between the separators, empty ones included
RECURSIVE Split(_, _)
Split(chars, sep) ==
    LET at == {n \in 1..Len(chars) : chars[n] = sep}
    IN  IF at = {} THEN <<chars>>
        ELSE <<SubSeq(chars, 1, Least(at) - 1)>>
                \o Split(SubSeq(chars, Least(at) + 1, Len(chars)), sep)

\* the characters of the model for which str.isalnum holds
AlnumChars == {"e", "n", "U", "S", "j", "a", "1"}

\* str.isalnum: not empty, and every character a letter or a digit
IsAlnum(chars) == chars # <<>> /\ \A n \in 1..Len(chars) : chars[n] \in AlnumChars

\* line 32
SanCandidate(lang) == Replace(Strip(lang.chars), "_", "-")

\* faulty variant: only the first subtag is looked at
SanRejected_first(lang) ==
    \/ lang.type = "none" \/ lang.chars = <<>>
    \/ SanCandidate(lang) = <<>>
    \/ ~IsAlnum(Split(SanCandidate(lang), "-")[1])

\* lines 29-30, 33-34 and 41-43: the conditions under which "en" is returned
SanRejected(lang) ==
    \/ lang.type = "none" \/ lang.chars = <<>>
    \/ SanCandidate(lang) = <<>>
    \/ \E n \in 1..Len(Split(SanCandidate(lang), "-")) :
            LET subtag == Split(SanCandidate(lang), "-")[n]
            IN  subtag = <<>> \/ ~IsAlnum(subtag)

\* lines 20-44
sanitize_language_code(lang) ==
    IF SanRejected(lang) THEN En ELSE SanCandidate(lang)

\* the characters of the generated arguments
SanChars == {"e", "n", "U", "1", "_", "-", " ", "!"}

\* inputs: None, every str of up to MaxTagLen characters, and some longer ones
SanInputs ==
    {NoTag}
    \cup {Tag(chars) : chars \in SeqsUpTo(SanChars, MaxTagLen)}
    \cup {Tag(<<"e", "n", "_", "U", "S">>), Tag(<<" ", "e", "n", "-", "U", "S", " ">>),
          Tag(<<"j", "a", "-", "-", "j", "a">>), Tag(<<"e", "n", " ", "U", "S">>),
          Tag(<<"j", "a">>)}

SanInit ==
    /\ san_language \in SanInputs
    /\ san_pc = "called"
    /\ san_result = <<>>
    /\ OffSanIdle

\* lines 29-30, 33-34, 41-43: return "en"
sanitize_language_code_default ==
    /\ san_pc = "called"
    /\ SanRejected(san_language)
    /\ san_result' = sanitize_language_code(san_language)
    /\ san_pc' = "done"
    /\ UNCHANGED san_language
    /\ UNCHANGED offSanVars

\* line 44: return candidate
sanitize_language_code_candidate ==
    /\ san_pc = "called"
    /\ ~SanRejected(san_language)
    /\ san_result' = sanitize_language_code(san_language)
    /\ san_pc' = "done"
    /\ UNCHANGED san_language
    /\ UNCHANGED offSanVars

SanNext ==
    \/ sanitize_language_code_default
    \/ sanitize_language_code_candidate

SpecSan == SanInit /\ [][SanNext]_vars

----------------------------------------------------------------------------
(* normalize.py: infer_block_from_group, lines 101-121, next to
   compute_position *)

Block(block, label) == [block |-> block, label |-> label]

\* lines 115, 117 and 119: the atomic numbers of the s, p and d block
S_BLOCK_NUMBERS == {3, 4, 11, 12, 19, 20, 37, 38, 55, 56, 87, 88}
P_BLOCK_NUMBERS ==
    (5..10) \cup (13..18) \cup (31..36) \cup (49..54) \cup (81..86) \cup (113..118)
D_BLOCK_NUMBERS == (21..30) \cup (39..48) \cup (71..80) \cup (103..112)

\* lines 108-114 and 115-121: the block by the group, then by the number
BlockByGroup(atomic_number, group) ==
    IF group.type = "int" /\ group.int \in {1, 2} THEN Block("s", "s-block")
    ELSE IF group.type = "int" /\ 3 <= group.int /\ group.int <= 12
        THEN Block("d", "d-block")
    ELSE IF group.type = "int" /\ 13 <= group.int /\ group.int <= 18
        THEN Block("p", "p-block")
    ELSE IF atomic_number.int \in S_BLOCK_NUMBERS THEN Block("s", "s-block")
    ELSE IF atomic_number.int \in P_BLOCK_NUMBERS THEN Block("p", "p-block")
    ELSE IF atomic_number.int \in D_BLOCK_NUMBERS THEN Block("d", "d-block")
    ELSE Block("", "")

\* faulty variant: a present group is looked at before the f-block range
infer_block_from_group_group_first(atomic_number, group) ==
    IF atomic_number.type = "none" THEN Block("", "")
    ELSE IF atomic_number.int \in {1, 2} THEN Block("s", "s-block")
    ELSE IF BlockByGroup(atomic_number, group).block # "" /\ group.type = "int"
        THEN BlockByGroup(atomic_number, group)
    ELSE IF atomic_number.int \in (57..71) \cup (89..103) THEN Block("f", "f-block")
    ELSE BlockByGroup(atomic_number, group)

\* lines 101-121
infer_block_from_group(atomic_number, group) ==
    IF atomic_number.type = "none" THEN Block("", "")
    ELSE IF atomic_number.int \in {1, 2} THEN Block("s", "s-block")
    ELSE IF \/ (57 <= atomic_number.int /\ atomic_number.int <= 71)
            \/ (89 <= atomic_number.int /\ atomic_number.int <= 103)
        THEN Block("f", "f-block")
    ELSE BlockByGroup(atomic_number, group)

\* inputs: every atomic number and None, every group and None, two periods
BlkInputs ==
    {MkElement(a, PyStr("X"), g, p) :
        a \in {PyInt(n) : n \in 0..MaxBlockAtomic} \cup {None},
        g \in GroupValues \ {Absent},
        p \in {None, PyInt(6)}}

BlkInit ==
    /\ blk_element \in BlkInputs
    /\ blk_pc = "called"
    /\ blk_block = <<>>
    /\ blk_position = <<>>
    /\ OffBlkIdle

\* normalize.py lines 101-121
infer_block_from_group_call ==
    /\ blk_pc = "called"
    /\ blk_block' = infer_block_from_group(blk_element["atomic_number"], blk_element["group"])
    /\ blk_pc' = "inferred"
    /\ UNCHANGED <<blk_element, blk_position>>
    /\ UNCHANGED offBlkVars

\* build_cover_svg.py lines 69-81
compute_position_call ==
    /\ blk_pc = "inferred"
    /\ blk_position' = compute_position(blk_element)
    /\ blk_pc' = "done"
    /\ UNCHANGED <<blk_element, blk_block>>
    /\ UNCHANGED offBlkVars

BlkNext ==
    \/ infer_block_from_group_call
    \/ compute_position_call

SpecBlk == BlkInit /\ [][BlkNext]_vars

----------------------------------------------------------------------------
(* fetch_wiki.py: main, lines 210-313, and fetch_element_summaries, lines
   150-188. Every request and every write is a step that the network or the
   file system lets succeed or fail. *)

\* a str wiki_url, held as its pieces between the "/"
WikiUrl(segs) == [type |-> "str", int |-> 0, str |-> "url", segs |-> segs]

\* line 163, wiki_url.rsplit("/", 1)[-1]
RSplitLast(url) == url.segs[Len(url.segs)]

\* the dict {"atomic_number": a, "wiki_url": u} without the keys whose value
\* is Absent
MkFetched(a, u) ==
    LET full == [k \in {"atomic_number", "wiki_url"} |->
                    IF k = "atomic_number" THEN a ELSE u]
    IN  [k \in {q \in DOMAIN full : full[q] # Absent} |-> full[k]]

\* faulty variant: the Action API is taken first
ApiOrder_action_first(api) == IF api = "auto" THEN <<"action", "rest">> ELSE <<api>>

\* line 255
ApiOrder(api) == IF api = "auto" THEN <<"rest", "action">> ELSE <<api>>

\* line 187, the sort key item.get("atomic_number", 0)
SortKey(item) ==
    IF "atomic_number" \in DOMAIN item THEN item["atomic_number"].int ELSE 0

\* list.sort(key=...): the item is put behind the last item whose key is not
\* larger, so items of equal key keep their order
RECURSIVE SortedByKey(_)
SortedByKey(items) ==
    IF items = <<>> THEN <<>>
    ELSE
    LET front == SortedByKey(SubSeq(items, 1, Len(items) - 1))
        item == items[Len(items)]
        before == {n \in 1..Len(front) : SortKey(front[n]) <= SortKey(item)}
        at == IF before = {} THEN 0 ELSE Greatest(before)
    IN  SubSeq(front, 1, at) \o <<item>> \o SubSeq(front, at + 1, Len(front))

\* faulty variant: the list is returned as it was built
SortSummaries_unsorted(items) == items

\* line 187
SortSummaries(items) == SortedByKey(items)

\* lines 127-147 and 174-178, build_element_summary: the element's own keys
\* and the title and raw file of a payload that answers with the title asked for
Summary(element, title) ==
    [k \in DOMAIN element \cup {"title", "raw_file"} |->
        IF k \in {"title", "raw_file"} THEN PyStr(title) ELSE element[k]]

\* inputs: elements with and without atomic_number and wiki_url
FetchRecords ==
    {MkFetched(a, u) :
        a \in {PyInt(1), PyInt(2), Absent},
        u \in {WikiUrl(<<"wiki", "Hydrogen">>), WikiUrl(<<"wiki", "Helium">>)}}
    \cup {MkFetched(PyInt(1), u) : u \in {Absent, None, PyStr("")}}

FetchInputs ==
    [api : {"auto", "rest", "action"},
     elements_from : BOOLEAN,
     loadable : BOOLEAN,
     elements : SeqsUpTo(FetchRecords, MaxFetched)]

FwInit ==
    /\ fw_args \in {a \in FetchInputs :
                        (~a.elements_from \/ ~a.loadable) => a.elements = <<>>}
    /\ fw_pc = "start"
    /\ fw_todo = <<>>
    /\ fw_attempted = <<>>
    /\ fw_failed = {}
    /\ fw_payload = ""
    /\ fw_raw = {}
    /\ fw_meta = ""
    /\ fw_ret = "none"
    /\ fw_i = 0
    /\ fw_summaries = <<>>
    /\ fw_elem_raw = <<>>
    /\ fw_skipped = {}
    /\ fw_refused = {}
    /\ fw_requested = <<>>
    /\ fw_elements_json = <<>>
    /\ OffFwIdle

fwPageVars == <<fw_todo, fw_attempted, fw_failed, fw_payload, fw_raw, fw_meta>>
fwElemVars == <<fw_i, fw_summaries, fw_elem_raw, fw_skipped, fw_refused,
                fw_requested, fw_elements_json>>

\* lines 238-242: configure_logging raises, main returns 1
main_configure_logging_raise ==
    /\ fw_pc = "start"
    /\ fw_ret' = "1"
    /\ fw_pc' = "exit"
    /\ UNCHANGED <<fw_args, fwPageVars, fwElemVars, offFwVars>>

\* lines 238-255: logging is set up, the for loop starts
main_configure_logging ==
    /\ fw_pc = "start"
    /\ fw_todo' = ApiOrder(fw_args.api)
    /\ fw_pc' = "loop"
    /\ UNCHANGED <<fw_args, fw_attempted, fw_failed, fw_payload, fw_raw, fw_meta,
                   fw_ret, fwElemVars, offFwVars>>

\* lines 255-261: the next API is taken and its request returns a payload
main_request ==
    /\ fw_pc = "loop"
    /\ fw_todo # <<>>
    /\ fw_attempted' = Append(fw_attempted, Head(fw_todo))
    /\ fw_todo' = Tail(fw_todo)
    /\ fw_payload' = Head(fw_todo)
    /\ fw_pc' = "requested"
    /\ UNCHANGED <<fw_args, fw_failed, fw_raw, fw_meta, fw_ret, fwElemVars, offFwVars>>

\* lines 255-260 and 266-268: the next API is taken and its request raises
main_request_raise ==
    /\ fw_pc = "loop"
    /\ fw_todo # <<>>
    /\ fw_attempted' = Append(fw_attempted, Head(fw_todo))
    /\ fw_todo' = Tail(fw_todo)
    /\ fw_failed' = fw_failed \cup {Head(fw_todo)}
    /\ UNCHANGED <<fw_args, fw_pc, fw_payload, fw_raw, fw_meta, fw_ret,
                   fwElemVars, offFwVars>>

\* line 262: save_raw writes the raw file
main_save_raw ==
    /\ fw_pc = "requested"
    /\ fw_raw' = fw_raw \cup {fw_payload}
    /\ fw_pc' = "saved"
    /\ UNCHANGED <<fw_args, fw_todo, fw_attempted, fw_failed, fw_payload, fw_meta,
                   fw_ret, fwElemVars, offFwVars>>

\* lines 262 and 266-268: save_raw raises
main_save_raw_raise ==
    /\ fw_pc = "requested"
    /\ fw_failed' = fw_failed \cup {fw_payload}
    /\ fw_pc' = "loop"
    /\ UNCHANGED <<fw_args, fw_todo, fw_attempted, fw_payload, fw_raw, fw_meta,
                   fw_ret, fwElemVars, offFwVars>>

\* lines 263-265: update_meta writes meta.json, break
main_update_meta ==
    /\ fw_pc = "saved"
    /\ fw_meta' = fw_payload
    /\ fw_pc' = "fetched"
    /\ UNCHANGED <<fw_args, fw_todo, fw_attempted, fw_failed, fw_payload, fw_raw,
                   fw_ret, fwElemVars, offFwVars>>

\* lines 263 and 266-268: update_meta raises
main_update_meta_raise ==
    /\ fw_pc = "saved"
    /\ fw_failed' = fw_failed \cup {fw_payload}
    /\ fw_pc' = "loop"
    /\ UNCHANGED <<fw_args, fw_todo, fw_attempted, fw_payload, fw_raw, fw_meta,
                   fw_ret, fwElemVars, offFwVars>>

\* lines 269-271: the for loop ran out, main returns 1
main_all_failed ==
    /\ fw_pc = "loop"
    /\ fw_todo = <<>>
    /\ fw_ret' = "1"
    /\ fw_pc' = "exit"
    /\ UNCHANGED <<fw_args, fwPageVars, fwElemVars, offFwVars>>

\* lines 273 and 313: no --elements-from, main returns 0
main_return ==
    /\ fw_pc = "fetched"
    /\ ~fw_args.elements_from
    /\ fw_ret' = "0"
    /\ fw_pc' = "exit"
    /\ UNCHANGED <<fw_args, fwPageVars, fwElemVars, offFwVars>>

\* lines 274-278: load_elements raises, main returns 1
main_load_elements_raise ==
    /\ fw_pc = "fetched"
    /\ fw_args.elements_from
    /\ ~fw_args.loadable
    /\ fw_ret' = "1"
    /\ fw_pc' = "exit"
    /\ UNCHANGED <<fw_args, fwPageVars, fwElemVars, offFwVars>>

\* lines 274-279 and 153-154: the elements are loaded and
\* fetch_element_summaries is entered
main_load_elements ==
    /\ fw_pc = "fetched"
    /\ fw_args.elements_from
    /\ fw_args.loadable
    /\ fw_pc' = "summaries"
    /\ UNCHANGED <<fw_args, fwPageVars, fw_ret, fwElemVars, offFwVars>>

\* lines 155-162: no wiki_url, continue
fetch_element_summaries_skip ==
    /\ fw_pc = "summaries"
    /\ fw_i < Len(fw_args.elements)
    /\ ~Truthy(Get(fw_args.elements[fw_i + 1], "wiki_url"))
    /\ fw_i' = fw_i + 1
    /\ fw_skipped' = fw_skipped \cup {fw_i + 1}
    /\ UNCHANGED <<fw_args, fw_pc, fwPageVars, fw_ret, fw_summaries, fw_elem_raw,
                   fw_refused, fw_requested, fw_elements_json, offFwVars>>

\* lines 163-173: summary_request raises, continue
fetch_element_summaries_refused ==
    /\ fw_pc = "summaries"
    /\ fw_i < Len(fw_args.elements)
    /\ Truthy(Get(fw_args.elements[fw_i + 1], "wiki_url"))
    /\ fw_i' = fw_i + 1
    /\ fw_requested' = Append(fw_requested, RSplitLast(fw_args.elements[fw_i + 1]["wiki_url"]))
    /\ fw_refused' = fw_refused \cup {fw_i + 1}
    /\ UNCHANGED <<fw_args, fw_pc, fwPageVars, fw_ret, fw_summaries, fw_elem_raw,
                   fw_skipped, fw_elements_json, offFwVars>>

\* lines 163-186: the summary is received, its raw file written and the
\* summary appended
fetch_element_summaries_append ==
    /\ fw_pc = "summaries"
    /\ fw_i < Len(fw_args.elements)
    /\ Truthy(Get(fw_args.elements[fw_i + 1], "wiki_url"))
    /\ LET element == fw_args.elements[fw_i + 1]
           title == RSplitLast(element["wiki_url"])
       IN  /\ fw_requested' = Append(fw_requested, title)
           /\ fw_elem_raw' = Append(fw_elem_raw, title)
           /\ fw_summaries' = Append(fw_summaries, Summary(element, title))
    /\ fw_i' = fw_i + 1
    /\ UNCHANGED <<fw_args, fw_pc, fwPageVars, fw_ret, fw_skipped, fw_refused,
                   fw_elements_json, offFwVars>>

\* lines 163-177: the summary is received and save_raw raises; the exception
\* leaves fetch_element_summaries and main
fetch_element_summaries_save_raw_raise ==
    /\ fw_pc = "summaries"
    /\ fw_i < Len(fw_args.elements)
    /\ Truthy(Get(fw_args.elements[fw_i + 1], "wiki_url"))
    /\ fw_requested' = Append(fw_requested, RSplitLast(fw_args.elements[fw_i + 1]["wiki_url"]))
    /\ fw_i' = fw_i + 1
    /\ fw_ret' = "raised"
    /\ fw_pc' = "exit"
    /\ UNCHANGED <<fw_args, fwPageVars, fw_summaries, fw_elem_raw, fw_skipped,
                   fw_refused, fw_elements_json, offFwVars>>

\* lines 187-188: the list is sorted and returned
fetch_element_summaries_return ==
    /\ fw_pc = "summaries"
    /\ fw_i = Len(fw_args.elements)
    /\ fw_summaries' = SortSummaries(fw_summaries)
    /\ fw_pc' = "summarized"
    /\ UNCHANGED <<fw_args, fwPageVars, fw_ret, fw_i, fw_elem_raw, fw_skipped,
                   fw_refused, fw_requested, fw_elements_json, offFwVars>>

\* lines 280-309 and 313: the summaries are written, main returns 0
main_write_summaries ==
    /\ fw_pc = "summarized"
    /\ fw_summaries # <<>>
    /\ fw_elements_json' = fw_summaries
    /\ fw_ret' = "0"
    /\ fw_pc' = "exit"
    /\ UNCHANGED <<fw_args, fwPageVars, fw_i, fw_summaries, fw_elem_raw, fw_skipped,
                   fw_refused, fw_requested, offFwVars>>

\* lines 310-313: no summary was fetched, main returns 0
main_no_summaries ==
    /\ fw_pc = "summarized"
    /\ fw_summaries = <<>>
    /\ fw_ret' = "0"
    /\ fw_pc' = "exit"
    /\ UNCHANGED <<fw_args, fwPageVars, fwElemVars, offFwVars>>

FwNext ==
    \/ main_configure_logging_raise
    \/ main_configure_logging
    \/ main_request
    \/ main_request_raise
    \/ main_save_raw
    \/ main_save_raw_raise
    \/ main_update_meta
    \/ main_update_meta_raise
    \/ main_all_failed
    \/ main_return
    \/ main_load_elements_raise
    \/ main_load_elements
    \/ fetch_element_summaries_skip
    \/ fetch_element_summaries_refused
    \/ fetch_element_summaries_append
    \/ fetch_element_summaries_save_raw_raise
    \/ fetch_element_summaries_return
    \/ main_write_summaries
    \/ main_no_summaries

SpecFetch == FwInit /\ [][FwNext]_vars

----------------------------------------------------------------------------
(* build_epub.py: render_opf, lines 278-429. A string is the sequence of its
   pieces; the characters html.escape replaces are pieces of their own. *)

\* html.escape(s) of line 11, quote=True by default
EscapeChar(c) ==
    CASE c = "&" -> "&amp;"
      [] c = "<" -> "&lt;"
      [] c = ">" -> "&gt;"
      [] c = "\"" -> "&quot;"
      [] c = "'" -> "&#x27;"
      [] OTHER -> c

escape(s) == [n \in DOMAIN s |-> EscapeChar(s[n])]

\* lines 286-293, the id and the href of the items every manifest has
FixedManifestItems ==
    << [id |-> <<"nav">>, href |-> <<"nav.xhtml">>],
       [id |-> <<"style">>, href |-> <<"css/style.css">>],
       [id |-> <<"cover-image">>, href |-> <<"images/cover.jpg">>],
       [id |-> <<"cover">>, href |-> <<"cover.xhtml">>],
       [id |-> <<"attribution">>, href |-> <<"attribution.xhtml">>],
       [id |-> <<"ncx">>, href |-> <<"toc.ncx">>] >>

\* lines 298-301
PageItems(element_pages) ==
    [n \in DOMAIN element_pages |->
        [id |-> escape(element_pages[n].id), href |-> escape(element_pages[n].href)]]

\* faulty variant: the item of the element index is left out
manifest_items_no_index(element_pages) ==
    FixedManifestItems \o PageItems(element_pages)

\* lines 286-301
manifest_items(element_pages) ==
    FixedManifestItems \o
    (IF element_pages # <<>>
     THEN <<[id |-> <<"element-index">>, href |-> <<"elements/index.xhtml">>]>>
          \o PageItems(element_pages)
     ELSE <<>>)

\* lines 303-307, the idref of each itemref
spine_refs(element_pages) ==
    <<<<"cover">>>> \o
    (IF element_pages # <<>>
     THEN <<<<"element-index">>>> \o
          [n \in DOMAIN element_pages |-> escape(element_pages[n].id)]
     ELSE <<>>)
    \o <<<<"attribution">>>>

\* lines 286-310 and 426-427: the manifest and the spine of the document
render_opf(element_pages) ==
    [manifest |-> manifest_items(element_pages), spine |-> spine_refs(element_pages)]

\* inputs: pages with the ids main gives them (line 523) and ids that hold
\* characters escape replaces
PageIds ==
    {<<"element-001">>, <<"element-002">>, <<"x", "&", "y">>, <<"it", "'", "s">>}

ElementPages ==
    {[id |-> page_id, href |-> <<"elements/">> \o page_id \o <<".xhtml">>] :
        page_id \in PageIds}

OpfInit ==
    /\ opf_args \in {[element_pages |-> p] : p \in SeqsUpTo(ElementPages, MaxPages)}
    /\ opf_doc = [manifest |-> <<>>, spine |-> <<>>]
    /\ OffOpfIdle

render_opf_call ==
    /\ opf_doc.spine = <<>>
    /\ opf_doc' = render_opf(opf_args.element_pages)
    /\ UNCHANGED <<opf_args, offOpfVars>>

OpfNext == render_opf_call

SpecOpf == OpfInit /\ [][OpfNext]_vars

----------------------------------------------------------------------------
(* build_epub.py: main, lines 535-573. A write or a copy may fail with an
   OSError of the file system. *)

\* faulty variant: the attribution page is taken to be there
AttributionExists_unchecked(args) == TRUE

\* line 552, (args.oebps / "attribution.xhtml").exists()
AttributionExists(args) == args.attribution

\* lines 547-551, the files of the element pages
PageFiles(element_pages) == [n \in DOMAIN element_pages |-> element_pages[n].href]

Range(s) == {s[n] : n \in DOMAIN s}

EpInputs ==
    [element_pages : SeqsUpTo(ElementPages, MaxPages), attribution : BOOLEAN]

EpInit ==
    /\ ep_args \in EpInputs
    /\ ep_pc = "start"
    /\ ep_written = <<>>
    /\ ep_opf = [manifest |-> <<>>, spine |-> <<>>]
    /\ ep_archive = {}
    /\ ep_ret = "none"
    /\ OffEpIdle

\* lines 538-539: mkdir and copy_static
main_copy_static ==
    /\ ep_pc = "start"
    /\ ep_written' = ep_written \o << <<"css/style.css">>, <<"images/cover.jpg">> >>
    /\ ep_pc' = "static"
    /\ UNCHANGED <<ep_args, ep_opf, ep_archive, ep_ret, offEpVars>>

\* lines 538-539: the style sheet or the cover cannot be copied
main_copy_static_raise ==
    /\ ep_pc = "start"
    /\ ep_ret' = "OSError"
    /\ ep_pc' = "exit"
    /\ UNCHANGED <<ep_args, ep_written, ep_opf, ep_archive, offEpVars>>

\* line 541
main_write_cover ==
    /\ ep_pc = "static"
    /\ ep_written' = Append(ep_written, <<"cover.xhtml">>)
    /\ ep_pc' = "cover"
    /\ UNCHANGED <<ep_args, ep_opf, ep_archive, ep_ret, offEpVars>>

\* lines 542-551: the element index and the element pages
main_write_elements ==
    /\ ep_pc = "cover"
    /\ ep_args.element_pages # <<>>
    /\ ep_written' = ep_written \o << <<"elements/index.xhtml">> >>
                        \o PageFiles(ep_args.element_pages)
    /\ ep_pc' = "check"
    /\ UNCHANGED <<ep_args, ep_opf, ep_archive, ep_ret, offEpVars>>

\* line 542: no element pages
main_no_elements ==
    /\ ep_pc = "cover"
    /\ ep_args.element_pages = <<>>
    /\ ep_pc' = "check"
    /\ UNCHANGED <<ep_args, ep_written, ep_opf, ep_archive, ep_ret, offEpVars>>

\* lines 552-553
main_attribution_missing ==
    /\ ep_pc = "check"
    /\ ~AttributionExists(ep_args)
    /\ ep_ret' = "FileNotFoundError"
    /\ ep_pc' = "exit"
    /\ UNCHANGED <<ep_args, ep_written, ep_opf, ep_archive, offEpVars>>

\* lines 552-557
main_write_nav ==
    /\ ep_pc = "check"
    /\ AttributionExists(ep_args)
    /\ ep_written' = Append(ep_written, <<"nav.xhtml">>)
    /\ ep_pc' = "nav"
    /\ UNCHANGED <<ep_args, ep_opf, ep_archive, ep_ret, offEpVars>>

\* lines 558-561
main_write_ncx ==
    /\ ep_pc = "nav"
    /\ ep_written' = Append(ep_written, <<"toc.ncx">>)
    /\ ep_pc' = "ncx"
    /\ UNCHANGED <<ep_args, ep_opf, ep_archive, ep_ret, offEpVars>>

\* lines 562-565
main_write_opf ==
    /\ ep_pc = "ncx"
    /\ ep_written' = Append(ep_written, <<"content.opf">>)
    /\ ep_opf' = render_opf(ep_args.element_pages)
    /\ ep_pc' = "opf"
    /\ UNCHANGED <<ep_args, ep_archive, ep_ret, offEpVars>>

\* lines 541-565: a write_text after copy_static raises
main_write_text_raise ==
    /\ \/ ep_pc \in {"static", "nav", "ncx"}
       \/ ep_pc = "cover" /\ ep_args.element_pages # <<>>
       \/ ep_pc = "check" /\ AttributionExists(ep_args)
    /\ ep_ret' = "OSError"
    /\ ep_pc' = "exit"
    /\ UNCHANGED <<ep_args, ep_written, ep_opf, ep_archive, offEpVars>>

\* lines 567-568: ensure_container and create_mimetype
main_ensure_container ==
    /\ ep_pc = "opf"
    /\ ep_written' = ep_written \o << <<"META-INF/container.xml">>, <<"mimetype">> >>
    /\ ep_pc' = "container"
    /\ UNCHANGED <<ep_args, ep_opf, ep_archive, ep_ret, offEpVars>>

\* lines 570-573 and 462-473: the archive takes the mimetype and every file
\* under META-INF and OEBPS; main returns 0
main_package_epub ==
    /\ ep_pc = "container"
    /\ ep_archive' = Range(ep_written) \cup
                        (IF ep_args.attribution THEN {<<"attribution.xhtml">>} ELSE {})
    /\ ep_ret' = "0"
    /\ ep_pc' = "exit"
    /\ UNCHANGED <<ep_args, ep_written, ep_opf, offEpVars>>

EpNext ==
    \/ main_copy_static
    \/ main_copy_static_raise
    \/ main_write_cover
    \/ main_write_elements
    \/ main_no_elements
    \/ main_attribution_missing
    \/ main_write_nav
    \/ main_write_ncx
    \/ main_write_opf
    \/ main_write_text_raise
    \/ main_ensure_container
    \/ main_package_epub

SpecEpub == EpInit /\ [][EpNext]_vars

TypeOK ==
    /\ i \in 0..Len(elements)
    /\ pc \in {"loop", "done", "raised"}
    /\ exc \in {"", "KeyError", "TypeError"}
    /\ Len(cells) <= i

----------------------------------------------------------------------------
(* Helpers of the properties *)

IsInt(element, key) == key \in DOMAIN element /\ element[key].type = "int"

Lanthanide(n) == 57 <= n /\ n <= 71
Actinide(n) == 89 <= n /\ n <= 103

\* the element the loop took last
Taken == elements[i]

Placeable(element) == compute_position(element).kind = "pos"

\* the index in cells of the Cell of elements[j], when every placeable element
\* up to j has its Cell
CellIndex(j) == Cardinality({k \in 1..j : Placeable(elements[k])})

LastCell == cells[Len(cells)]

\* the y of a row without the gap, from the Cell's own height
Ungapped(c, row) == Px(MARGIN_TOP) + (row - 1) * c.height

\* two rectangles whose interiors do not meet
Disjoint(a, b) ==
    \/ a.x + a.width <= b.x
    \/ b.x + b.width <= a.x
    \/ a.y + a.height <= b.y
    \/ b.y + b.height <= a.y

----------------------------------------------------------------------------
(* C1: an element whose atomic number is in 57..71 is placed at row 8,
   column 4 + (atomic_number - 57), whatever group and period it carries
   (present, missing, None, in or out of range). *)
C1_LanthanideRow ==
    (i >= 1 /\ IsInt(Taken, "atomic_number") /\ Lanthanide(Taken["atomic_number"].int))
        => position = Position(8, 4 + (Taken["atomic_number"].int - 57))

\* a lanthanide that carries a group and period the third rule would accept
C1_Witness ==
    /\ i >= 1
    /\ IsInt(Taken, "atomic_number") /\ Taken["atomic_number"].int = 71
    /\ IsInt(Taken, "group") /\ Taken["group"].int = 3
    /\ IsInt(Taken, "period") /\ Taken["period"].int = 6
    /\ position = Position(8, 18)

(* C2: an element whose atomic number is in 89..103 is placed at row 9,
   column 4 + (atomic_number - 89), whatever group and period it carries. *)
C2_ActinideRow ==
    (i >= 1 /\ IsInt(Taken, "atomic_number") /\ Actinide(Taken["atomic_number"].int))
        => position = Position(9, 4 + (Taken["atomic_number"].int - 89))

\* the last actinide, carrying a group and period the third rule would accept
C2_Witness ==
    /\ i >= 1
    /\ IsInt(Taken, "atomic_number") /\ Taken["atomic_number"].int = 103
    /\ IsInt(Taken, "group") /\ Taken["group"].int = 3
    /\ IsInt(Taken, "period") /\ Taken["period"].int = 7
    /\ position = Position(9, 18)

(* C3: an element with group in 1..18, period in 1..7 and an atomic number
   outside 57..71 and 89..103 is placed at (row, column) = (period, group). *)
C3_GroupPeriodCell ==
    (/\ i >= 1
     /\ IsInt(Taken, "atomic_number")
     /\ ~Lanthanide(Taken["atomic_number"].int)
     /\ ~Actinide(Taken["atomic_number"].int)
     /\ IsInt(Taken, "group") /\ Taken["group"].int \in 1..18
     /\ IsInt(Taken, "period") /\ Taken["period"].int \in 1..7)
        => position = Position(Taken["period"].int, Taken["group"].int)

C3_Witness ==
    /\ i >= 1
    /\ IsInt(Taken, "atomic_number") /\ Taken["atomic_number"].int = 72
    /\ IsInt(Taken, "group") /\ Taken["group"].int = 4
    /\ IsInt(Taken, "period") /\ Taken["period"].int = 6
    /\ position = Position(6, 4)

(* C4: an element outside both atomic-number ranges whose group and period
   are both present (not None) with 1 <= group <= 18 is placed at row =
   period, column = group, for any integer period. *)
C4_AnyPresentPeriod ==
    (/\ i >= 1
     /\ IsInt(Taken, "atomic_number")
     /\ ~Lanthanide(Taken["atomic_number"].int)
     /\ ~Actinide(Taken["atomic_number"].int)
     /\ IsInt(Taken, "group") /\ Taken["group"].int \in 1..18
     /\ IsInt(Taken, "period"))
        => position = Position(Taken["period"].int, Taken["group"].int)

\* the three placement rules as the claim words them: present means not None
MatchesRule(element) ==
    /\ IsInt(element, "atomic_number")
    /\ \/ Lanthanide(element["atomic_number"].int)
       \/ Actinide(element["atomic_number"].int)
       \/ /\ IsInt(element, "group") /\ element["group"].int \in 1..18
          /\ IsInt(element, "period")

(* C5: the list build_cells returns holds exactly one Cell for each input
   element that matches one of the three placement rules and none for any
   other element, without deduplication: its length is the number of
   placeable input elements. *)
C5_OneCellPerPlaceable ==
    pc = "done"
        => Len(cells) = Cardinality({j \in 1..Len(elements) : MatchesRule(elements[j])})

(* C6: build_cells raises no error for any input record; a record whose
   atomic_number, symbol, group or period is missing or None is skipped and
   the call returns a list. *)
C6_NeverRaises == pc # "raised"

(* C7: two placed elements whose grid coordinates differ, with rows in 1..9
   and columns in 1..18, get Cell rectangles with disjoint interiors. *)
C7_NoOverlap ==
    pc = "done" =>
        \A j, k \in 1..Len(elements) :
            LET pj == compute_position(elements[j])
                pk == compute_position(elements[k])
            IN  (/\ pj.kind = "pos" /\ pk.kind = "pos"
                 /\ <<pj.row, pj.column>> # <<pk.row, pk.column>>
                 /\ pj.row \in 1..ROWS /\ pk.row \in 1..ROWS
                 /\ pj.column \in 1..COLUMNS /\ pk.column \in 1..COLUMNS)
                    => Disjoint(cells[CellIndex(j)], cells[CellIndex(k)])

\* a period-7 element above a lanthanide of the same column
C7_Witness ==
    /\ pc = "done"
    /\ Len(elements) = 2 /\ Len(cells) = 2
    /\ compute_position(elements[1]) = Position(7, 5)
    /\ compute_position(elements[2]) = Position(8, 5)

(* C8: the Cell of an element at (row, column) has x = margin_left +
   (column - 1) * cell_width and, up to the gap, y = margin_top +
   (row - 1) * cell_height, with width = (canvas_width - margin_left -
   margin_right) / 18 and height = (canvas_height - margin_top -
   margin_bottom) / 9, exactly (no rounding). *)
C8_CellGeometry ==
    (pc \in {"loop", "done"} /\ position.kind = "pos") =>
        LET c == LastCell
        IN  /\ c.width * 18 = Px(LAYOUT_WIDTH - MARGIN_LEFT - MARGIN_RIGHT)
            /\ c.height * 9 = Px(LAYOUT_HEIGHT - MARGIN_TOP - MARGIN_BOTTOM)
            /\ c.x = Px(MARGIN_LEFT) + (position.column - 1) * c.width
            /\ \/ c.y = Ungapped(c, position.row)
               \/ /\ position.row >= 8
                  /\ LAN_GAP_FACTOR_DEN * (c.y - Ungapped(c, position.row))
                        = LAN_GAP_FACTOR_NUM * c.height

C8_Witness ==
    /\ pc = "loop"
    /\ position = Position(3, 18)
    /\ Len(cells) = 1
    /\ LastCell.x + LastCell.width = Px(LAYOUT_WIDTH - MARGIN_RIGHT)

(* C9: for a Cell of row >= 8, y exceeds margin_top + (row - 1) * cell_height
   by exactly cell_height * gap_factor; for a Cell of row < 8 nothing is
   added. *)
C9_GapFromRow8 ==
    (pc \in {"loop", "done"} /\ position.kind = "pos") =>
        LET c == LastCell
            added == c.y - Ungapped(c, position.row)
        IN  IF position.row >= 8
            THEN added > 0 /\ LAN_GAP_FACTOR_DEN * added = LAN_GAP_FACTOR_NUM * c.height
            ELSE added = 0

\* a Cell of row 8 placed by the group/period rule, and so not a lanthanide
C9_Witness ==
    /\ pc = "loop"
    /\ position.kind = "pos" /\ position.row = 8
    /\ IsInt(Taken, "atomic_number") /\ Taken["atomic_number"].int = 1
    /\ LastCell.y > Ungapped(LastCell, 8)

\* the placeable elements among the first n, in input order
PlacedPrefix(n) == SelectSeq(SubSeq(elements, 1, n), Placeable)

(* C10: the Cells are in input order: the list is the input with the
   unplaceable elements removed, the n-th Cell carrying the atomic_number
   and symbol of the n-th placeable element. *)
C10_InputOrder ==
    pc \in {"loop", "done"} =>
        LET placed == PlacedPrefix(i)
        IN  /\ Len(cells) = Len(placed)
            /\ \A n \in 1..Len(placed) :
                /\ cells[n].atomic_number = placed[n]["atomic_number"]
                /\ cells[n].symbol = placed[n]["symbol"]

\* two placed elements that differ in atomic_number and symbol
C10_Witness ==
    /\ pc = "done"
    /\ Len(elements) = 2 /\ Len(cells) = 2
    /\ cells[1].atomic_number = PyInt(57) /\ cells[1].symbol = PyStr("H")
    /\ cells[2].atomic_number = PyInt(1) /\ cells[2].symbol = None

(* C11: build_cells run twice on the same list, which nothing changes in
   between, returns the same Cells both times: same length and the same
   atomic_number, symbol, x, y, width and height at each index. *)
C11_SameCellsTwice ==
    (run = 2 /\ pc = "done") =>
        /\ Len(cells) = Len(first)
        /\ \A n \in 1..Len(first) : cells[n] = first[n]

\* a second call that returned two Cells
C11_Witness ==
    /\ run = 2 /\ pc = "done"
    /\ Len(first) = 2
    /\ cells = first

----------------------------------------------------------------------------
(* Helpers of the properties of concurrent calls *)

\* every call that is over has the result of the same call run alone
ResultsAsAlone ==
    \A c \in Calls :
        LET alone == build_cells_alone(call_elements[c], Len(call_elements[c]))
        IN  /\ call_pc[c] = "done" =>
                /\ alone.exc = ""
                /\ heap[call_cells[c]] = alone.cells
            /\ call_pc[c] = "raised" =>
                /\ call_exc[c] # ""
                /\ call_exc[c] = alone.exc
            /\ acall_pc[c] = "done" =>
                acall_path[c] = make_arc_path_d(acall_args[c].cx, acall_args[c].cy,
                                                acall_args[c].r, acall_args[c].theta_start,
                                                acall_args[c].theta_end)

(* C12: build_cells and make_arc_path_d share no mutable state and leave
   their inputs alone: in every interleaving of the steps of concurrent calls,
   on the same or on different inputs, no step changes an argument, and every
   call that is over has, from then on, the result it has when run alone. *)
C12_CallsIsolated ==
    [][/\ call_elements' = call_elements
       /\ acall_args' = acall_args
       /\ ResultsAsAlone']_vars

\* the second call has returned two cells of the list both calls were given,
\* while the first call is in the middle of its loop over that list
C12_Witness ==
    /\ call_elements # <<>>
    /\ call_elements[1] = call_elements[2]
    /\ call_pc[1] = "loop" /\ call_i[1] = 1 /\ Len(heap[call_cells[1]]) = 1
    /\ call_pc[2] = "done" /\ Len(heap[call_cells[2]]) = 2
    /\ acall_pc[1] = "done"

----------------------------------------------------------------------------
(* Helpers of the properties of make_arc_path_d *)

ArcDone == arc_pc = "done"

\* a whole number of degrees
Whole(a) == a.tiny = 0

\* the real numbers a and b differ by a multiple of 360
Congruent360(a, b) == a.tiny = b.tiny /\ (a.deg - b.deg) % 360 = 0

\* the point of a top-clockwise angle of 0, 90, 180 or 270 degrees, thousandths
CardinalPoint(cx, cy, r, deg) ==
    CASE deg = 0 -> <<cx * Milli, (cy - r) * Milli>>
      [] deg = 90 -> <<(cx + r) * Milli, cy * Milli>>
      [] deg = 180 -> <<cx * Milli, (cy + r) * Milli>>
      [] OTHER -> <<(cx - r) * Milli, cy * Milli>>

\* the point <<x, y>> (thousandths) of angle a is where the top-clockwise
\* convention puts it: on the axis point for a quarter turn, in the right
\* quadrant otherwise (radius r > 0)
TopClockwise(cx, cy, r, a, x, y) ==
    LET m == a.deg % 360
    IN  IF m % 90 = 0 THEN <<x, y>> = CardinalPoint(cx, cy, r, m)
        ELSE r > 0 =>
            /\ (m < 180) = (x > cx * Milli)
            /\ (m < 90 \/ m > 270) = (y < cy * Milli)

(* C13: make_arc_path_d moves to the point of the start angle and draws to
   the point of the end angle, a top-clockwise angle t being at
   (cx + r cos(t - 90), cy + r sin(t - 90)): 0 is (cx, cy - r), 90 is
   (cx + r, cy), 180 is (cx, cy + r), 270 is (cx - r, cy); the call
   (100, 100, 50, 0, 90) starts at (100, 50), ends at (150, 100) and has
   large-arc flag 0. *)
C13_TopClockwisePoints ==
    ArcDone =>
        /\ TopClockwise(arc_args.cx, arc_args.cy, arc_args.r, arc_args.theta_start,
                        arc_path.x1, arc_path.y1)
        /\ TopClockwise(arc_args.cx, arc_args.cy, arc_args.r, arc_args.theta_end,
                        arc_path.x2, arc_path.y2)
        /\ (arc_args = [cx |-> 100, cy |-> 100, r |-> 50,
                        theta_start |-> Angle(0), theta_end |-> Angle(90)])
            => /\ <<arc_path.x1, arc_path.y1>> = <<100000, 50000>>
               /\ <<arc_path.x2, arc_path.y2>> = <<150000, 100000>>
               /\ arc_path.large_arc_flag = 0

C13_Witness ==
    /\ ArcDone
    /\ arc_args = [cx |-> 100, cy |-> 100, r |-> 50,
                   theta_start |-> Angle(0), theta_end |-> Angle(90)]
    /\ <<arc_path.x1, arc_path.y1, arc_path.x2, arc_path.y2>>
            = <<100000, 50000, 150000, 100000>>

\* 0 <= a < 360
InTurn(a) == (a.deg > 0 \/ (a.deg = 0 /\ a.tiny >= 0)) /\ a.deg < 360

\* for whole degrees: the extent is the integer formula, and a turn more or
\* less at either end does not change it
WholeExtent(start, end) ==
    /\ arc_extent = Angle(((end.deg % 360) - (start.deg % 360)) % 360)
    /\ \A turn \in {-360, 360} :
        /\ arc_extent = _clockwise_extent_deg(FloatSub(start, Angle(turn)), end)
        /\ arc_extent = _clockwise_extent_deg(start, FloatSub(end, Angle(turn)))

(* C14: for all start and end angles, negative ones and ones >= 360
   included, _clockwise_extent_deg returns ((end mod 360) - (start mod 360))
   mod 360, a value in [0, 360) that does not change when 360 is added to or
   subtracted from either angle; from 350 to 10 it is 20, not 340. *)
C14_ExtentFormula ==
    ArcDone =>
        LET start == arc_args.theta_start
            end == arc_args.theta_end
        IN  /\ InTurn(arc_extent)
            /\ (Whole(start) /\ Whole(end)) => WholeExtent(start, end)
            /\ (start = Angle(350) /\ end = Angle(10)) => arc_extent = Angle(20)

(* C15: the large-arc flag of the path is 1 exactly when the clockwise
   extent from start to end is strictly greater than 180 degrees, and 0
   otherwise; an extent of exactly 180 gives 0. *)
C15_LargeArcFlag ==
    ArcDone =>
        /\ arc_path.large_arc_flag = (IF arc_extent.deg > 180 THEN 1 ELSE 0)
        /\ (Whole(arc_args.theta_start) /\ Whole(arc_args.theta_end))
            => (arc_path.large_arc_flag = 1)
                = ((arc_args.theta_end.deg - arc_args.theta_start.deg) % 360 > 180)

\* a half turn: the flag is 0
C15_Witness ==
    /\ ArcDone
    /\ arc_extent = Angle(180)
    /\ arc_path.large_arc_flag = 0

(* C16: for all inputs the path has sweep flag 1, x-axis rotation 0 and both
   radii equal to r, whatever the angles. *)
C16_FixedArcFields ==
    ArcDone =>
        /\ arc_path.sweep_flag = 1
        /\ arc_path.rotation = 0
        /\ arc_path.rx = arc_args.r * Milli
        /\ arc_path.ry = arc_args.r * Milli

\* a small arc of negative radius
C16_Witness ==
    /\ ArcDone
    /\ arc_args.r < 0
    /\ arc_path.large_arc_flag = 0
    /\ arc_path.sweep_flag = 1

(* C17, as claimed: when start equals end modulo 360 the path is a near-360
   arc, the long way round, with large-arc flag 1. *)
C17_NearFullArc ==
    (ArcDone /\ Congruent360(arc_args.theta_start, arc_args.theta_end))
        => arc_path.large_arc_flag = 1

(* C17, amended: when start equals end modulo 360 the path is a zero-length
   arc: large-arc flag 0 and the end point printed equal to the start point. *)
C17_ZeroLengthArc ==
    (ArcDone /\ Congruent360(arc_args.theta_start, arc_args.theta_end))
        => /\ arc_path.large_arc_flag = 0
           /\ <<arc_path.x2, arc_path.y2>> = <<arc_path.x1, arc_path.y1>>

\* a full turn apart, on a circle of radius 50
C17_Witness ==
    /\ ArcDone
    /\ arc_args.r = 50
    /\ arc_args.theta_start = Angle(0) /\ arc_args.theta_end = Angle(360)
    /\ arc_path.large_arc_flag = 0

(* C18: for start equal to end, also when they differ by a multiple of 360,
   _clockwise_extent_deg returns 0, not 360. *)
C18_EqualAnglesExtentZero ==
    (ArcDone /\ Congruent360(arc_args.theta_start, arc_args.theta_end))
        => arc_extent = Angle(0)

\* two turns apart
C18_Witness ==
    /\ ArcDone
    /\ arc_args.theta_start = Angle(-360) /\ arc_args.theta_end = Angle(360)
    /\ arc_extent = Angle(0)

\* no argument is an infinity
FiniteArgs == arc_args.theta_start.inf = 0 /\ arc_args.theta_end.inf = 0

\* what holds of a path of radius 0 and of a path of negative radius
UnvalidatedRadius ==
    ArcDone =>
        /\ arc_args.r = 0 =>
            /\ <<arc_path.x1, arc_path.y1>> = <<arc_args.cx * Milli, arc_args.cy * Milli>>
            /\ <<arc_path.x2, arc_path.y2>> = <<arc_args.cx * Milli, arc_args.cy * Milli>>
        /\ arc_args.r < 0 =>
            /\ arc_path.rx = arc_args.r * Milli
            /\ Congruent360(arc_args.theta_start, Angle(0))
                => arc_path.y1 = (arc_args.cy - arc_args.r) * Milli

(* C19, as claimed: make_arc_path_d takes every number as it is, without
   validation or error: no call fails; with radius 0 both points are the
   centre; a negative radius is written and used as given, and angles outside
   [0, 360) give a path too. *)
C19_NeverFails ==
    /\ arc_pc # "raised"
    /\ UnvalidatedRadius

(* C19, amended: make_arc_path_d takes every finite number as it is, without
   validation or error: a call with finite angles always returns a path; with
   radius 0 both points are the centre; a negative radius is written and used
   as given, and finite angles outside [0, 360) give a path too. An infinite
   angle makes the call fail. *)
C19_NoValidation ==
    /\ (arc_pc = "called" /\ FiniteArgs) => ENABLED make_arc_path_d_call
    /\ FiniteArgs => arc_pc # "raised"
    /\ ~FiniteArgs => ~ArcDone
    /\ UnvalidatedRadius

\* a negative radius, a negative start angle and an end angle of a turn or more
C19_Witness ==
    /\ ArcDone
    /\ arc_args.r < 0
    /\ arc_args.theta_start.deg < 0
    /\ arc_args.theta_end.deg >= 360
    /\ arc_path.rx < 0

----------------------------------------------------------------------------
(* Helpers of the properties of get_localized_strings *)

\* lang is a known tag followed by "-" and a subtag
HasRegion(lang, tag) ==
    /\ lang.type = "str"
    /\ Len(lang.chars) > Len(tag) + 1
    /\ SubSeq(lang.chars, 1, Len(tag)) = tag
    /\ lang.chars[Len(tag) + 1] = "-"

\* lang names the language tag, whatever the case and the blanks around it:
\* it is the tag, or the tag followed by "-"
Names(lang, tag) ==
    /\ lang.type = "str"
    /\ LET c == LowerStr(Strip(lang.chars))
       IN  \/ c = tag
           \/ /\ Len(c) > Len(tag)
              /\ SubSeq(c, 1, Len(tag)) = tag
              /\ c[Len(tag) + 1] = "-"

(* C20: for every language argument (None, empty, unknown or known)
   get_localized_strings returns a dict that has every key of the default
   language "en"; a tag with a region subtag, as "ja-JP", selects its primary
   language when that is known; an unknown language gives exactly the values
   of the default language. *)
C20_LocalizedStrings ==
    lang_pc = "done" =>
        /\ DOMAIN _BASE_STRINGS[En] \subseteq DOMAIN base
        /\ \A tag \in {En, Ja} :
            HasRegion(language, tag) =>
                /\ selected = tag
                /\ base = get_localized_strings(Tag(tag))
                /\ \A k \in DOMAIN _BASE_STRINGS[tag] : base[k] = _BASE_STRINGS[tag][k]
        /\ (\A tag \in {En, Ja} : ~Names(language, tag)) =>
                /\ \A k \in DOMAIN _BASE_STRINGS[En] : base[k] = _BASE_STRINGS[En][k]
                /\ base = get_localized_strings(Tag(En))

\* "ja-JP" gave the Japanese strings
C20_Witness ==
    /\ lang_pc = "done"
    /\ language = Tag(<<"j", "a", "-", "J", "P">>)
    /\ selected = Ja
    /\ base["toc_heading"] = Text("ja", "toc_heading")
    /\ base["book_title"] = Text("ja", "cover_arc_title")

----------------------------------------------------------------------------
(* Properties of render_svg *)

RenderDone == render_pc = "done"

(* C21: in render_svg each text anchor is derived from the centre (cx, cy)
   and the radius of its arc: the title anchor is
   (cx - r_title / 1.414, cy - r_title / 1.414) and the subtitle anchor is
   (cx - r_subtitle / 1.414, cy - r_subtitle / 1.414). *)
C21_AnchorsFromCentre ==
    RenderDone =>
        LET title == render_arcs.title
            subtitle == render_arcs.subtitle
        IN  /\ render_ctx.title_x = title.cx * Milli - AnchorOffset(title.r)
            /\ render_ctx.title_y = title.cy * Milli - AnchorOffset(title.r)
            /\ render_ctx.subtitle_x = subtitle.cx * Milli - AnchorOffset(subtitle.r)
            /\ render_ctx.subtitle_y = subtitle.cy * Milli - AnchorOffset(subtitle.r)

(* C24: the two arcs render_svg asks for both run from the top-clockwise
   angle -95 to 185, a clockwise extent of 280 degrees, so both paths have
   large-arc flag 1 and sweep flag 1; they have the same centre and differ
   only in the radius, r_subtitle = r_title + 120. *)
C24_CoverArcs ==
    RenderDone =>
        LET title == render_arcs.title
            subtitle == render_arcs.subtitle
        IN  /\ \A a \in {title, subtitle} :
                /\ a.theta_start = Angle(-95) /\ a.theta_end = Angle(185)
                /\ _clockwise_extent_deg(a.theta_start, a.theta_end) = Angle(280)
            /\ \A d \in {render_ctx.arc_title_d, render_ctx.arc_subtitle_d} :
                d.large_arc_flag = 1 /\ d.sweep_flag = 1
            /\ subtitle = [title EXCEPT !.r = title.r + 120]
            /\ render_ctx.arc_title_d.rx = title.r * Milli
            /\ render_ctx.arc_subtitle_d.rx = (title.r + 120) * Milli
            /\ render_ctx.arc_subtitle_d.rx # render_ctx.arc_title_d.rx

\* the cover of a Japanese book: centre (1024, 400), radii 200 and 320
C24_Witness ==
    /\ RenderDone
    /\ render_args.language = Tag(Ja)
    /\ render_arcs.title.cx = 1024 /\ render_arcs.title.cy = 400
    /\ render_arcs.title.r = 200 /\ render_arcs.subtitle.r = 320
    /\ render_ctx.arc_title_d.large_arc_flag = 1
    /\ render_ctx.arc_subtitle_d.large_arc_flag = 1

----------------------------------------------------------------------------
(* Properties of sanitize_language_code *)

\* a tag that can be used: subtags of letters and digits with single "-"
\* between them, at least one
UsableTag(chars) ==
    /\ chars # <<>>
    /\ \A n \in 1..Len(chars) : chars[n] \in AlnumChars \cup {"-"}
    /\ chars[1] # "-" /\ chars[Len(chars)] # "-"
    /\ \A n \in 1..(Len(chars) - 1) : ~(chars[n] = "-" /\ chars[n + 1] = "-")

\* the argument as the claim reads it: blanks of both ends dropped, "_" made "-"
Hyphenated(lang) == Replace(Strip(lang.chars), "_", "-")

(* C22: sanitize_language_code never returns an empty or unusable tag: it
   returns "en" for None, for an empty or blank argument and for one that,
   with "_" replaced by "-", has an empty subtag or one that is not
   alphanumeric; otherwise it returns the stripped argument with "_"
   replaced by "-"; applied to its own result it returns that result. *)
C22_SanitizedTag ==
    san_pc = "done" =>
        /\ UsableTag(san_result)
        /\ IF san_language.type = "none" \/ ~UsableTag(Hyphenated(san_language))
           THEN san_result = En
           ELSE san_result = Hyphenated(san_language)
        /\ sanitize_language_code(Tag(san_result)) = san_result

\* "en_US" became "en-US"
C22_Witness ==
    /\ san_pc = "done"
    /\ san_language = Tag(<<"e", "n", "_", "U", "S">>)
    /\ san_result = <<"e", "n", "-", "U", "S">>

----------------------------------------------------------------------------
(* C23: the Cell of every element placed at a row in 1..9 and a column in
   1..18 lies inside the 2560 x 1600 layout canvas: 0 <= x,
   x + width <= 2560, 0 <= y, y + height <= 1600, the f-block gap of rows 8
   and 9 included; every lanthanide and actinide is such an element, its
   column being in 4..18. *)
C23_CellInsideCanvas ==
    (pc \in {"loop", "done"} /\ position.kind = "pos") =>
        /\ (position.row \in 1..9 /\ position.column \in 1..18) =>
            /\ 0 <= LastCell.x
            /\ LastCell.x + LastCell.width <= Px(2560)
            /\ 0 <= LastCell.y
            /\ LastCell.y + LastCell.height <= Px(1600)
        /\ (\/ Lanthanide(Taken["atomic_number"].int)
            \/ Actinide(Taken["atomic_number"].int)) =>
            /\ position.row \in 8..9
            /\ position.column \in 4..18

\* lawrencium, in the last row and the last column
C23_Witness ==
    /\ pc = "loop"
    /\ position = Position(9, 18)
    /\ Taken["atomic_number"] = PyInt(103)
    /\ LastCell.y + LastCell.height <= Px(1600)
    /\ LastCell.x + LastCell.width <= Px(2560)

----------------------------------------------------------------------------
(* Properties of infer_block_from_group next to compute_position *)

\* compute_position placed the element by its atomic number: a lanthanide in
\* row 8, an actinide in row 9
PlacedByNumber ==
    /\ blk_element["atomic_number"].type = "int"
    /\ LET n == blk_element["atomic_number"].int
       IN  \/ n \in 57..71 /\ blk_position = Position(8, 4 + (n - 57))
           \/ n \in 89..103 /\ blk_position = Position(9, 4 + (n - 89))

(* C25: block inference and grid placement agree on the f-block: for every
   atomic number and every group, infer_block_from_group returns block "f"
   exactly when compute_position places the element in row 8 or 9 by the
   atomic-number rule (57..71 or 89..103); in both the atomic-number range
   comes before a present group, so 71 and 103 are never d-block. *)
C25_FBlockAgrees ==
    blk_pc = "done" =>
        /\ (blk_block.block = "f") = PlacedByNumber
        /\ (blk_block.block = "f") = (blk_block.label = "f-block")
        /\ blk_element["atomic_number"] \in {PyInt(71), PyInt(103)} =>
            /\ blk_block.block = "f"
            /\ blk_position.kind = "pos" /\ blk_position.row \in {8, 9}
            /\ blk_position.column = 18

\* lutetium with group 3 and period 6
C25_Witness ==
    /\ blk_pc = "done"
    /\ blk_element = MkElement(PyInt(71), PyStr("X"), PyInt(3), PyInt(6))
    /\ blk_block = Block("f", "f-block")
    /\ blk_position = Position(8, 18)


----------------------------------------------------------------------------
(* fetch_wiki.main *)

FwExited == fw_pc = "exit"

\* every attempted API raised in its request, its raw save or its metadata write
EveryAttemptFailed == \A n \in 1..Len(fw_attempted) : fw_attempted[n] \in fw_failed

\* REST first, the Action API only after a failed REST attempt; a fixed --api
\* alone
AttemptsInOrder ==
    /\ fw_args.api = "auto" =>
        /\ fw_attempted \in {<<>>, <<"rest">>, <<"rest", "action">>}
        /\ Len(fw_attempted) = 2 => "rest" \in fw_failed
    /\ fw_args.api # "auto" => fw_attempted \in {<<>>, <<fw_args.api>>}

\* the API whose request, save_raw and update_meta all succeeded is the last
\* one attempted, and every one before it failed
StopsAtFirstSuccess ==
    fw_meta # "" =>
        /\ fw_attempted # <<>>
        /\ fw_meta = fw_attempted[Len(fw_attempted)]
        /\ fw_meta \notin fw_failed
        /\ fw_meta \in fw_raw
        /\ \A n \in 1..(Len(fw_attempted) - 1) : fw_attempted[n] \in fw_failed

\* the element file named by --elements-from could not be loaded
ElementsUnloadable == fw_args.elements_from /\ ~fw_args.loadable

\* C26 as stated: the order of the attempts, the stop at the first success,
\* and main returns 1 exactly when every attempted API failed, fetching no
\* element summary then. Violated: main also returns 1 after a successful
\* attempt when load_elements raises.
C26_ReturnsOneOnlyWhenAllFailed ==
    /\ AttemptsInOrder
    /\ StopsAtFirstSuccess
    /\ FwExited => ((fw_ret = "1") <=> EveryAttemptFailed)
    /\ fw_ret = "1" => fw_requested = <<>>

\* C26 amended: the order of the attempts and the stop at the first success
\* are as stated; main returns 1 when every attempted API failed (none is
\* attempted when logging cannot be configured) and also when an attempt
\* succeeded but the element file cannot be loaded; in each of these runs no
\* element summary is fetched.
C26_ApiFallback ==
    /\ AttemptsInOrder
    /\ StopsAtFirstSuccess
    /\ FwExited =>
        ((fw_ret = "1") <=> (EveryAttemptFailed \/ (fw_meta # "" /\ ElementsUnloadable)))
    /\ fw_ret = "1" => fw_requested = <<>>

\* REST failed, the Action API succeeded, and main returned 1 all the same
C26_Witness ==
    /\ fw_attempted = <<"rest", "action">>
    /\ fw_meta = "action"
    /\ fw_ret = "1"

----------------------------------------------------------------------------
(* fetch_wiki.fetch_element_summaries *)

\* the elements taken so far that were neither skipped nor refused, and at
\* which no exception left the function
Contributing ==
    {n \in 1..fw_i : /\ n \notin fw_skipped \cup fw_refused
                     /\ ~(fw_ret = "raised" /\ n = fw_i)}

RECURSIVE ContributingTitles(_)
ContributingTitles(n) ==
    IF n = 0 THEN <<>>
    ELSE ContributingTitles(n - 1) \o
         (IF n \in Contributing
          THEN <<RSplitLast(fw_args.elements[n]["wiki_url"])>> ELSE <<>>)

SummaryOf(n) ==
    Summary(fw_args.elements[n], RSplitLast(fw_args.elements[n]["wiki_url"]))

\* C27: an element without a wiki_url or whose summary request raises is
\* skipped, the run goes on and no raw file is written for it; every other
\* element has exactly one summary in the returned list, which is in
\* ascending order of atomic_number.
C27_PerElementIsolation ==
    /\ fw_skipped = {n \in 1..fw_i : ~Truthy(Get(fw_args.elements[n], "wiki_url"))}
    /\ fw_ret = "raised" => fw_i \notin fw_skipped \cup fw_refused
    /\ fw_elem_raw = ContributingTitles(fw_i)
    /\ fw_pc = "summarized" =>
        /\ fw_i = Len(fw_args.elements)
        /\ Len(fw_summaries) = Cardinality(Contributing)
        /\ \A n \in Contributing :
            Cardinality({k \in 1..Len(fw_summaries) : fw_summaries[k] = SummaryOf(n)})
                = Cardinality({m \in Contributing : SummaryOf(m) = SummaryOf(n)})
        /\ \A j, k \in 1..Len(fw_summaries) :
            j < k => SortKey(fw_summaries[j]) <= SortKey(fw_summaries[k])

\* atomic number 2 came before atomic number 1, both were fetched
C27_Witness ==
    /\ fw_pc = "summarized"
    /\ Len(fw_args.elements) = 2
    /\ Contributing = {1, 2}
    /\ SortKey(fw_args.elements[1]) > SortKey(fw_args.elements[2])

----------------------------------------------------------------------------
(* build_epub.render_opf *)

\* what a reader of the document takes an attribute value for
UnescapeChar(c) ==
    CASE c = "&amp;" -> "&"
      [] c = "&lt;" -> "<"
      [] c = "&gt;" -> ">"
      [] c = "&quot;" -> "\""
      [] c = "&#x27;" -> "'"
      [] OTHER -> c

Unescape(s) == [n \in DOMAIN s |-> UnescapeChar(s[n])]

OpfRendered == opf_doc.spine # <<>>

ManifestIds == {Unescape(opf_doc.manifest[n].id) : n \in DOMAIN opf_doc.manifest}

\* the ids of the pages, in list order
PageIdsInOrder == [n \in DOMAIN opf_args.element_pages |-> opf_args.element_pages[n].id]

\* C28: every idref of the spine is the id of an item of the manifest, and the
\* spine is cover, then the element index and the element pages in list order
\* if there are pages, then attribution.
C28_SpineInManifest ==
    OpfRendered =>
        /\ \A n \in DOMAIN opf_doc.spine : Unescape(opf_doc.spine[n]) \in ManifestIds
        /\ [n \in DOMAIN opf_doc.spine |-> Unescape(opf_doc.spine[n])] =
            IF opf_args.element_pages = <<>>
            THEN << <<"cover">>, <<"attribution">> >>
            ELSE << <<"cover">>, <<"element-index">> >> \o PageIdsInOrder
                 \o << <<"attribution">> >>

\* three pages, one of them with an id that escape rewrites
C28_Witness ==
    /\ OpfRendered
    /\ Len(opf_args.element_pages) = 3
    /\ opf_args.element_pages[1].id = <<"x", "&", "y">>
    /\ opf_args.element_pages[2].id = <<"element-002">>
    /\ opf_args.element_pages[3].id = <<"element-001">>

----------------------------------------------------------------------------
(* build_epub.main *)

\* nav.xhtml, toc.ncx or content.opf is written, or an archive is created
Packaged ==
    \/ \E f \in {<<"nav.xhtml">>, <<"toc.ncx">>, <<"content.opf">>} :
            f \in Range(ep_written)
    \/ ep_archive # {}

\* C29: without attribution.xhtml main writes neither nav.xhtml, toc.ncx nor
\* content.opf and creates no archive, it does not return 0, and once the
\* pages before the test of line 552 are written the run ends there with
\* FileNotFoundError; the three files and the archive come only from runs
\* that have the attribution page.
C29_AttributionFirst ==
    /\ [](Packaged => ep_args.attribution)
    /\ [](~ep_args.attribution => ep_ret # "0")
    /\ [][(ep_pc = "check" /\ ~ep_args.attribution) =>
            (ep_ret' = "FileNotFoundError" /\ ep_pc' = "exit" /\ ~Packaged')]_vars

\* two element pages are written, the attribution page is missing, and the
\* run has ended with FileNotFoundError
C29_Witness ==
    /\ ~ep_args.attribution
    /\ Len(ep_args.element_pages) = 2
    /\ <<"elements/index.xhtml">> \in Range(ep_written)
    /\ ep_ret = "FileNotFoundError"
    /\ ~Packaged
=============================================================================
